---- MODULE Spec2Model ----
(***************************************************************************)
(* Model of the programs of MMAI5040_TP_Model: the safety-plan generator,  *)
(* the indexer, the crawler and the evaluation harness.                    *)
(*                                                                         *)
(* Two generators are modelled, both named generate_safety_plan:           *)
(*   "main" : src/main.py, retrieval + analysis call + synthesis call      *)
(*   "spg"  : src/safety_plan_generator.py, retrieval + one model call     *)
(*                                                                         *)
(* Text is a sequence of tokens.  A token is a piece of a Python string    *)
(* that the code never looks inside: a literal of the f-string template,   *)
(* an interpolated argument, the newline chr(10), a single blank.  The     *)
(* indentation blanks the triple-quoted templates put in front of every    *)
(* line are constant and left out.                                         *)
(*                                                                         *)
(* Every program has its own variables and its own specification; in the   *)
(* specification of one program the variables of the others stay parked    *)
(* at their initial values.                                                *)
(*   Spec          : generate_safety_plan, one call after the other        *)
(*   LoadSpec      : load_json_data over a family of corpora               *)
(*   SplitSpec     : text_splitter over a family of long documents         *)
(*   PipelineSpec  : the indexer's main and the retrieval of the generator *)
(*                   working on one vector collection                      *)
(*   CrawlSpec     : the crawl loop of the two crawlers                    *)
(*   EvalSpec      : run_rag_evaluation, evaluate_context_metrics and the  *)
(*                   concatenation of their outputs                        *)
(*   FilterSpec    : filter_corpus                                         *)
(*   SelectSpec    : load_test_set                                         *)
(*   TrackSpec     : RAGTracker                                            *)
(***************************************************************************)
EXTENDS Naturals, Sequences, FiniteSets, Bags

VARIABLES
    pc,          \* position of the one generate_safety_plan call in progress
    variant,     \* which generator is running: "main" or "spg"
    req,         \* its arguments: neighbourhood, crime_type, user_context
    fq,          \* formatted_user_input["input"] / formatted_input
    retrQuery,   \* the string handed to the retriever
    context,     \* the chunks (metadata) the retriever returned, in order
    analysisIn,  \* the arguments of the combine-documents model call
    answer,      \* output of that call (main: the analysis; spg: the plan)
    synthIn,     \* the arguments of the plan_chain model call (main only)
    plan,        \* output of plan_chain (main only)
    response,    \* plan_string, the returned text
    calls,       \* the external calls and the assembly made so far, in order
    outcome,     \* what the caller gets: "none", "returned" or "error"
    prev         \* the previous request of this process, or None

\* The indexer (src/2_ingestion.py, modified_ingestion.py) and the start of
\* generate_safety_plan up to its retrieval (src/main.py).
VARIABLES
    script,            \* the program that runs: "2_ingestion", "modified_ingestion", "main"
    env,               \* the names set in os.environ after load_dotenv
    ipc,               \* position of that program
    events,            \* clients constructed and network calls made, in order
    error,             \* the exception that ended the program, or NoError
    corpus,            \* content of the corpus JSON file: a list of batches
    documents,         \* what load_json_data returned
    text_split_chunks, \* what text_splitter returned
    collection,        \* the vector collection: a bag of stored chunks
    runs,              \* the ingestion runs that reached this collection, in order
    found              \* what the retriever of main.py returned

\* The crawler (1_informationretreival.py, modified_informationretreival.py).
VARIABLES
    crawler,        \* which crawler runs: "original" or "modified"
    resources,      \* the URLs of the sheet, in sheet order
    cpc,            \* position of the crawler
    link,           \* index in resources of the URL the loop is at
    attempt,        \* the loop variable of crawl_with_retry
    waited,         \* the time.sleep durations of this crawl_with_retry call
    tries,          \* what each app.crawl_url call of this crawl_with_retry
                    \* call did: returned, or raised which exception
    crawl_results,  \* the list the loop appends to
    outcomes,       \* how the crawl of each URL taken up so far ended
    json_file       \* what was written to JSON_FILE, or NoFile

\* The evaluation harness (evals_LLMOutput_V3.py, evals_precision_recall_V3.py,
\* FINAL_run_all_evals.py).
VARIABLES
    test_cases,         \* the "questions" of the test set
    epc,                \* position of the harness
    case_i,             \* index in test_cases of the case the loop is at
    results,            \* run_rag_evaluation: the five lists
    generated_answers,  \* run_rag_evaluation: question -> generated answer
    retrieved_log,      \* the chunks the generator retrieved, one entry for
                        \* every entry of results["contexts"]
    reported,           \* the cases whose error or warning was printed
    answers_file,       \* generated_answers.json
    rag_csv,            \* rag_results.csv
    data_samples,       \* evaluate_context_metrics: the four lists
    pr_csv,             \* precision_recall_results.csv
    eval_csv            \* evaluation_results_<time>.csv

\* filter_corpus (filter_corpus.py).
VARIABLES
    input_file,         \* the corpus file that is read
    corpus_data,        \* `data`: the batches as loaded
    fpc,                \* position of filter_corpus
    batch_i,            \* index in data of the batch the loop is at
    filtered_results,   \* the batches kept so far
    excluded_count,     \* the items excluded so far
    kept_domains,       \* the base domains of the items kept so far
    output_file,        \* the filtered corpus file
    filter_log          \* what logger.error was called with

\* load_test_set (the evaluation scripts).
VARIABLES
    test_sets_dir,      \* the files of test_sets/
    loader,             \* which copy of load_test_set is called
    filename,           \* its argument
    spc,                \* position of load_test_set
    loaded              \* what the call returned or raised

\* RAGTracker (rag_tracker.py).
VARIABLES
    history_file,       \* rag_tracking/improvement_history.csv
    trackers,           \* self.history of the RAGTracker objects constructed
    logged              \* every row log_experiment has added, in call order

genVars == << pc, variant, req, fq, retrQuery, context, analysisIn, answer,
              synthIn, plan, response, calls, outcome, prev >>

indexVars == << script, env, ipc, events, error, corpus, documents,
                text_split_chunks, collection, runs, found >>

crawlVars == << crawler, resources, cpc, link, attempt, waited, tries,
               crawl_results, outcomes, json_file >>

evalVars == << test_cases, epc, case_i, results, generated_answers,
              retrieved_log, reported, answers_file, rag_csv, data_samples,
              pr_csv, eval_csv >>

filterVars == << input_file, corpus_data, fpc, batch_i, filtered_results,
                excluded_count, kept_domains, output_file, filter_log >>

selectVars == << test_sets_dir, loader, filename, spc, loaded >>

trackVars == << history_file, trackers, logged >>

\* What an action of one program leaves alone: the other programs.
notGenerator == << indexVars, crawlVars, evalVars, filterVars, selectVars,
                  trackVars >>
notIndexer == << genVars, crawlVars, evalVars, filterVars, selectVars,
                trackVars >>
notCrawler == << genVars, indexVars, evalVars, filterVars, selectVars,
                trackVars >>
notHarness == << genVars, indexVars, crawlVars, filterVars, selectVars,
                trackVars >>
notFilter == << genVars, indexVars, crawlVars, evalVars, selectVars,
               trackVars >>
notSelect == << genVars, indexVars, crawlVars, evalVars, filterVars,
               trackVars >>
notTracker == << genVars, indexVars, crawlVars, evalVars, filterVars,
                selectVars >>

vars == << genVars, indexVars, crawlVars, evalVars, filterVars, selectVars,
          trackVars >>

(* ------------------------------ bounds --------------------------------- *)

\* Longest retrieval result explored.
MaxCtx == 2

(* ------------------------------ tokens --------------------------------- *)

NL == "\n"
SourcesHeader == "Sources Consulted:"
Whitespace == {" ", NL}

Absent == "<no such key>"

(* ------------------------- sequence helpers ---------------------------- *)

\* The elements of a sequence.
Range(s) == {s[i] : i \in 1..Len(s)}

\* All sequences over S of length at most n.
BoundedSeq(S, n) == UNION {[1..k -> S] : k \in 0..n}

\* The orders in which the elements of a finite set can be enumerated.
Perms(S) == {f \in [1..Cardinality(S) -> S] :
                \A i, j \in 1..Cardinality(S) : f[i] = f[j] => i = j}

\* sep.join(parts): parts is a sequence of texts.
RECURSIVE Join(_, _)
Join(sep, parts) ==
    IF parts = << >> THEN << >>
    ELSE IF Len(parts) = 1 THEN parts[1]
    ELSE parts[1] \o << sep >> \o Join(sep, Tail(parts))

\* text.split(sep)[0]: the part of text before the first sep.
SplitFirst(text, sep) ==
    LET hits == {i \in 1..Len(text) : text[i] = sep}
    IN  IF hits = {} THEN text
        ELSE SubSeq(text, 1, (CHOOSE i \in hits : \A j \in hits : i <= j) - 1)

\* text.strip(): without its leading and trailing whitespace.
Strip(text) ==
    LET keep == {i \in 1..Len(text) : text[i] \notin Whitespace}
    IN  IF keep = {} THEN << >>
        ELSE SubSeq(text,
                    CHOOSE i \in keep : \A j \in keep : i <= j,
                    CHOOSE i \in keep : \A j \in keep : j <= i)

(* ------------------------- the request's inputs ------------------------ *)

Variants == {"main", "spg"}

Neighbourhoods == {"Agincourt North (129)", "York University Heights (27)"}

\* crime_type / crime_concerns: non-empty lists of "crime: severity" strings.
CrimeLists == { << "Assault: Low" >>,
                << "Auto Theft: Medium", "Assault: Low" >> }

\* user_context.  main.py takes a list of strings.  safety_plan_generator.py
\* takes a dict; its items, in insertion order, are written here as the flat
\* list k1, v1, k2, v2, ...
UserContexts == { << >>, << "Q: Parking lighting?", "A: Well-lit" >> }

Requests == [neighbourhood : Neighbourhoods,
             crime_type    : CrimeLists,
             user_context  : UserContexts]

NoRequest == [neighbourhood |-> "", crime_type |-> << >>, user_context |-> << >>]

\* No previous request: the process has served none yet.
None == [variant |-> "none", req |-> NoRequest, fq |-> << >>]

(* ---------------------- the external services' answers ----------------- *)

\* Metadata of the chunks of the vector store.  2_ingestion.py writes a
\* 'source' and a 'title' to every chunk, the title being '' for a page
\* without one; a chunk written by other means may carry no 'title' key.
Chunks == { [title |-> "Transit Safety", source |-> "https://tps.ca/transit"],
            [title |-> "",               source |-> "https://tps.ca/feed"],
            [title |-> Absent,           source |-> "https://tps.ca/transit"] }

\* What the retriever can return: any chunks, in any order, repeats of one
\* page's metadata included (several chunks of the same page).
Retrievals == BoundedSeq(Chunks, MaxCtx)

\* The section headers SECOND_SAFETY_PROMPT / SAFETY_PLAN_PROMPT ask for.
SectionHeaders == << "NEIGHBOURHOOD-SPECIFIC ASSESSMENT:",
                     "TARGETED SAFETY RECOMMENDATIONS:",
                     "PERSONAL SAFETY PROTOCOL:",
                     "PREVENTIVE MEASURES:" >>

FourSections == Join(NL, [i \in 1..4 |-> << SectionHeaders[i] >>])

\* The source list of TRINITY_BELLWOODS_EXAMPLE, the few-shot example that
\* main.py passes to the synthesis call.
ExampleSource == << "Apartment, Condo Security",
                    "https://tps.ca/apartment-condo-security-1" >>

\* Texts the chat model can return as a plan: free text.  The model may
\* follow the four-section format or not, pad its text with whitespace, and
\* copy the layout of the example, source list included.
Bodies == {
    FourSections,
    << "Stay alert." >>,
    << NL >> \o FourSections \o << " " >>,
    FourSections \o << NL, SourcesHeader, NL,
                       "- ", ExampleSource[1], " (", ExampleSource[2], ")" >>,
    FourSections \o << NL, SourcesHeader, NL,
                       "- ", "Transit Safety", " (", "https://tps.ca/transit", ")" >> }

\* Texts the chat model can return as an analysis (main.py, first call).
Analyses == { << "Public Impact Assessment" >>, << "Information gaps" >> }

(* ------------------------------ Step 1 --------------------------------- *)

\* A mutant of formatted_crime_concerns: the concerns are joined with ","
\* alone.
formatted_crime_concerns_comma(crime_type) ==
    Join(",", [i \in 1..Len(crime_type) |-> << crime_type[i] >>])

\* ", ".join(crime_type)
formatted_crime_concerns(crime_type) ==
    Join(", ", [i \in 1..Len(crime_type) |-> << crime_type[i] >>])

\* main: "\n".join(user_context)
\* spg : "\n".join([f"Q: {q}\nA: {a}" for q, a in user_context.items()])
formatted_context(v, user_context) ==
    IF v = "main"
    THEN Join(NL, [i \in 1..Len(user_context) |-> << user_context[i] >>])
    ELSE Join(NL, [i \in 1..(Len(user_context) \div 2) |->
                     << "Q: ", user_context[2 * i - 1], NL,
                        "A: ", user_context[2 * i] >>])

\* A mutant of formatted_input: the text also carries state left by the
\* previous request.
formatted_input_stateful(v, neighbourhood, crime_type, user_context) ==
    << NL, "LOCATION: ", neighbourhood, NL, NL, "SAFETY CONCERNS:", NL, "- " >>
    \o formatted_crime_concerns(crime_type)
    \o << NL, NL,
          IF v = "main" THEN "ADDITIONAL USER CONTEXT:" ELSE "ADDITIONAL CONTEXT:",
          NL >>
    \o formatted_context(v, user_context)
    \o (IF prev = None THEN << NL >> ELSE << NL, "(follow-up request)", NL >>)

\* The formatted query: formatted_user_input["input"] of main.py,
\* formatted_input of safety_plan_generator.py.
formatted_input(v, neighbourhood, crime_type, user_context) ==
    << NL, "LOCATION: ", neighbourhood, NL, NL, "SAFETY CONCERNS:", NL, "- " >>
    \o formatted_crime_concerns(crime_type)
    \o << NL, NL,
          IF v = "main" THEN "ADDITIONAL USER CONTEXT:" ELSE "ADDITIONAL CONTEXT:",
          NL >>
    \o formatted_context(v, user_context)
    \o << NL >>

(* ------------------------- Steps 2 to 4: the chain ---------------------- *)

\* The one argument of safety_plan_chain.invoke / qa.invoke.
formatted_user_input(text) == [input |-> text]

\* A mutant of retriever_input: the vector store is searched for the
\* neighbourhood alone.
retriever_input_location(x) == << req.neighbourhood >>

\* create_retrieval_chain: the retriever is given x["input"].
retriever_input(x) == x.input

\* create_retrieval_chain: the combine-documents chain (FIRST_SAFETY_PROMPT,
\* SAFETY_PLAN_PROMPT) is given the chain's input and the retrieved context.
combine_docs_input(x, docs) == [input |-> x.input, context |-> docs]

\* The few-shot text: "\n\n".join(f"=== EXAMPLE: {name} ===\n{example}" ...)
\* over safety_plan_examples, which holds the Trinity-Bellwoods example.
example_safety_plans ==
    << "=== EXAMPLE: ", "Trinity-Bellwoods", " ===", NL,
       "TRINITY_BELLWOODS_EXAMPLE", SourcesHeader, NL,
       "- ", ExampleSource[1], " (", ExampleSource[2], ")" >>

\* A mutant of plan_chain_input: "analysis" is read from the wrong key.
plan_chain_input_wrong_key(x) ==
    [input |-> x.input,
     analysis |-> x.input,
     example_safety_plans |-> example_safety_plans]

\* The mapping in front of plan_chain: x is the analysis chain's result
\* {input, context, answer}; plan_prompt gets these three slots.
plan_chain_input(x) ==
    [input |-> x.input,
     analysis |-> x.answer,
     example_safety_plans |-> example_safety_plans]

\* A mutant of on_error: the failed step is tried again.
on_error_retry(step) == step

\* No try/except and no retry wraps the chain: an exception of any step
\* leaves generate_safety_plan at once.
on_error(step) == "failed"

\* A mutant of invoke_entry: a request equal to the previous one is served
\* from memory and goes straight to the assembly.
invoke_entry_cached(v, r) ==
    IF prev.variant = v /\ prev.req = r THEN "assemble" ELSE "retrieve"

\* safety_plan_chain.invoke / qa.invoke run the whole chain, whatever the
\* request: its first step is the retriever.
invoke_entry(v, r) == "retrieve"

(* ------------------------------ Step 5 --------------------------------- *)

\* doc.metadata.get('title', 'Untitled')
MetaTitle(md) == IF md.title = Absent THEN "Untitled" ELSE md.title

\* {(doc.metadata.get('title', 'Untitled'), doc.metadata['source'])
\*  for doc in context}
unique_sources(docs) == {<< MetaTitle(docs[i]), docs[i].source >> : i \in 1..Len(docs)}

\* chr(10).join(f"- {title} ({source})" for title, source in <the set>);
\* order is the order in which the set is iterated.
sources_lines(order) ==
    Join(NL, [i \in 1..Len(order) |->
                << "- ", order[i][1], " (", order[i][2], ")" >>])

PlanTitle == "CITY OF TORONTO SERVICE SAFETY PLAN"
FooterNote == "Note: ... For emergencies, always call 911. ... call 416-808-2222."

\* A mutant of final_plan: the template writes the first section header
\* itself, in front of the plan body.
final_plan_headed(neighbourhood, concerns, planText, order) ==
    << NL, PlanTitle, NL,
       "Neighbourhood: ", neighbourhood, NL,
       "Primary Concerns: " >> \o concerns \o << NL, NL, SectionHeaders[1], NL >>
    \o planText
    \o << NL, NL, SourcesHeader, NL >>
    \o sources_lines(order)
    \o << NL, NL, "----", NL, NL, FooterNote, NL >>

\* The f-string of the final lambda of safety_plan_chain (main.py).
final_plan(neighbourhood, concerns, planText, order) ==
    << NL, PlanTitle, NL,
       "Neighbourhood: ", neighbourhood, NL,
       "Primary Concerns: " >> \o concerns \o << NL, NL >>
    \o planText
    \o << NL, NL, SourcesHeader, NL >>
    \o sources_lines(order)
    \o << NL, NL, "----", NL, NL, FooterNote, NL >>

\* A mutant of plan_string: the answer is cut but not stripped.
plan_string_unstripped(neighbourhood, concerns, answerText, order) ==
    << NL, PlanTitle, NL,
       "Neighbourhood: ", neighbourhood, NL,
       "Primary Concerns: " >> \o concerns \o << NL, NL >>
    \o SplitFirst(answerText, SourcesHeader)
    \o << NL, NL, SourcesHeader, NL >>
    \o sources_lines(order)
    \o << NL, NL, FooterNote, NL >>

\* The f-string plan_string of safety_plan_generator.py.
plan_string(neighbourhood, concerns, answerText, order) ==
    << NL, PlanTitle, NL,
       "Neighbourhood: ", neighbourhood, NL,
       "Primary Concerns: " >> \o concerns \o << NL, NL >>
    \o Strip(SplitFirst(answerText, SourcesHeader))
    \o << NL, NL, SourcesHeader, NL >>
    \o sources_lines(order)
    \o << NL, NL, FooterNote, NL >>

(* ------------------- the other programs, not running ------------------- *)

\* No exception.
NoError == [type |-> "none", message |-> << >>]

\* The indexer has not been started and the vector collection is empty.
IndexParked ==
    /\ script = "none"
    /\ env = {}
    /\ ipc = "idle"
    /\ events = << >>
    /\ error = NoError
    /\ corpus = << >>
    /\ documents = << >>
    /\ text_split_chunks = << >>
    /\ collection = EmptyBag
    /\ runs = << >>
    /\ found = << >>

\* No file of that name.
NoFile == << "<no file>" >>

\* The crawler has not been started.
CrawlParked ==
    /\ crawler = "none"
    /\ resources = << >>
    /\ cpc = "idle"
    /\ link = 0
    /\ attempt = 0
    /\ waited = << >>
    /\ tries = << >>
    /\ crawl_results = << >>
    /\ outcomes = << >>
    /\ json_file = NoFile

\* The lists of run_rag_evaluation and of evaluate_context_metrics, empty.
NoResults == [question |-> << >>, answer |-> << >>, contexts |-> << >>,
              ground_truths |-> << >>, reference |-> << >>]
NoSamples == [question |-> << >>, answer |-> << >>, contexts |-> << >>,
              ground_truth |-> << >>]

\* A file of the harness: absent, or written with these rows (entries).
NotWritten == [exists |-> FALSE, rows |-> << >>]
Written(rows) == [exists |-> TRUE, rows |-> rows]

\* The harness has not been started.
EvalParked ==
    /\ test_cases = << >>
    /\ epc = "idle"
    /\ case_i = 0
    /\ results = NoResults
    /\ generated_answers = << >>
    /\ retrieved_log = << >>
    /\ reported = << >>
    /\ answers_file = NotWritten
    /\ rag_csv = NotWritten
    /\ data_samples = NoSamples
    /\ pr_csv = NotWritten
    /\ eval_csv = NotWritten

\* filter_corpus has not been called.
FilterParked ==
    /\ input_file = << >>
    /\ corpus_data = << >>
    /\ fpc = "idle"
    /\ batch_i = 0
    /\ filtered_results = << >>
    /\ excluded_count = 0
    /\ kept_domains = {}
    /\ output_file = NotWritten
    /\ filter_log = << >>

\* load_test_set has not been called.
NothingLoaded == [raised |-> "none", questions |-> << >>]
SelectParked ==
    /\ test_sets_dir = {}
    /\ loader = "none"
    /\ filename = ""
    /\ spc = "idle"
    /\ loaded = NothingLoaded

\* No RAGTracker has been constructed.
TrackParked ==
    /\ history_file = NotWritten
    /\ trackers = << >>
    /\ logged = << >>

ToolsParked == FilterParked /\ SelectParked /\ TrackParked

(* --------------------------- the state machine ------------------------- *)

NoCombineArgs == [input |-> << >>, context |-> << >>]
NoPlanArgs == [input |-> << >>, analysis |-> << >>, example_safety_plans |-> << >>]

Call(name, ok) == [name |-> name, ok |-> ok]

\* The name under which the combine-documents model call is logged: it is the
\* analysis call of main.py and the one generation call of
\* safety_plan_generator.py.
CombineName(v) == IF v = "main" THEN "analysis" ELSE "generation"

GenInit ==
    /\ pc = "idle"
    /\ variant = "none"
    /\ req = NoRequest
    /\ fq = << >>
    /\ retrQuery = << >>
    /\ context = << >>
    /\ analysisIn = NoCombineArgs
    /\ answer = << >>
    /\ synthIn = NoPlanArgs
    /\ plan = << >>
    /\ response = << >>
    /\ calls = << >>
    /\ outcome = "none"
    /\ prev = None

Init == GenInit /\ IndexParked /\ CrawlParked /\ EvalParked /\ ToolsParked

\* The other programs as the indexer, the crawler and the harness find them.
NotIndexerInit == GenInit /\ CrawlParked /\ EvalParked /\ ToolsParked
NotCrawlerInit == GenInit /\ IndexParked /\ EvalParked /\ ToolsParked
NotHarnessInit == GenInit /\ IndexParked /\ CrawlParked /\ ToolsParked
NotFilterInit ==
    GenInit /\ IndexParked /\ CrawlParked /\ EvalParked /\ SelectParked
        /\ TrackParked
NotSelectInit ==
    GenInit /\ IndexParked /\ CrawlParked /\ EvalParked /\ FilterParked
        /\ TrackParked
NotTrackerInit ==
    GenInit /\ IndexParked /\ CrawlParked /\ EvalParked /\ FilterParked
        /\ SelectParked

\* generate_safety_plan is called: the arguments are formatted and the chain
\* is invoked.
Start(v, r) ==
    /\ pc = "idle"
    /\ variant' = v
    /\ req' = r
    /\ fq' = formatted_input(v, r.neighbourhood, r.crime_type, r.user_context)
    /\ pc' = invoke_entry(v, r)
    /\ UNCHANGED << retrQuery, context, analysisIn, answer, synthIn, plan,
                    response, calls, outcome, prev >>
    /\ UNCHANGED notGenerator

\* Step 2: the retriever returns docs.
Retrieve(docs) ==
    /\ pc = "retrieve"
    /\ retrQuery' = retriever_input(formatted_user_input(fq))
    /\ context' = docs
    /\ calls' = Append(calls, Call("retrieval", TRUE))
    /\ pc' = "combine"
    /\ UNCHANGED << variant, req, fq, analysisIn, answer, synthIn, plan,
                    response, outcome, prev >>
    /\ UNCHANGED notGenerator

\* Step 2 raises (embedding or vector-store failure).
RetrieveFail ==
    /\ pc = "retrieve"
    /\ retrQuery' = retriever_input(formatted_user_input(fq))
    /\ calls' = Append(calls, Call("retrieval", FALSE))
    /\ pc' = on_error("retrieve")
    /\ outcome' = IF pc' = "failed" THEN "error" ELSE outcome
    /\ UNCHANGED << variant, req, fq, context, analysisIn, answer, synthIn,
                    plan, response, prev >>
    /\ UNCHANGED notGenerator

\* Step 3: the combine-documents model call returns text.
Combine(text) ==
    /\ pc = "combine"
    /\ text \in (IF variant = "main" THEN Analyses ELSE Bodies)
    /\ analysisIn' = combine_docs_input(formatted_user_input(fq), context)
    /\ answer' = text
    /\ calls' = Append(calls, Call(CombineName(variant), TRUE))
    /\ pc' = IF variant = "main" THEN "synthesise" ELSE "assemble"
    /\ UNCHANGED << variant, req, fq, retrQuery, context, synthIn, plan,
                    response, outcome, prev >>
    /\ UNCHANGED notGenerator

\* Step 3 raises (chat-completion failure).
CombineFail ==
    /\ pc = "combine"
    /\ analysisIn' = combine_docs_input(formatted_user_input(fq), context)
    /\ calls' = Append(calls, Call(CombineName(variant), FALSE))
    /\ pc' = on_error("combine")
    /\ outcome' = IF pc' = "failed" THEN "error" ELSE outcome
    /\ UNCHANGED << variant, req, fq, retrQuery, context, answer, synthIn,
                    plan, response, prev >>
    /\ UNCHANGED notGenerator

\* Step 4 (main.py): plan_chain returns text.
Synthesise(text) ==
    /\ pc = "synthesise"
    /\ text \in Bodies
    /\ synthIn' = plan_chain_input([input |-> fq, context |-> context,
                                    answer |-> answer])
    /\ plan' = text
    /\ calls' = Append(calls, Call("synthesis", TRUE))
    /\ pc' = "assemble"
    /\ UNCHANGED << variant, req, fq, retrQuery, context, analysisIn, answer,
                    response, outcome, prev >>
    /\ UNCHANGED notGenerator

\* Step 4 raises (chat-completion failure).
SynthesiseFail ==
    /\ pc = "synthesise"
    /\ synthIn' = plan_chain_input([input |-> fq, context |-> context,
                                    answer |-> answer])
    /\ calls' = Append(calls, Call("synthesis", FALSE))
    /\ pc' = on_error("synthesise")
    /\ outcome' = IF pc' = "failed" THEN "error" ELSE outcome
    /\ UNCHANGED << variant, req, fq, retrQuery, context, analysisIn, answer,
                    plan, response, prev >>
    /\ UNCHANGED notGenerator

\* Step 5: the response is put together; order is the order in which Python
\* iterates the set of sources.
Assemble(order) ==
    /\ pc = "assemble"
    /\ order \in Perms(unique_sources(context))
    /\ response' =
          IF variant = "main"
          THEN final_plan(req.neighbourhood,
                          formatted_crime_concerns(req.crime_type), plan, order)
          ELSE plan_string(req.neighbourhood,
                           formatted_crime_concerns(req.crime_type), answer, order)
    /\ calls' = Append(calls, Call("assembly", TRUE))
    /\ pc' = "done"
    /\ outcome' = "returned"
    /\ UNCHANGED << variant, req, fq, retrQuery, context, analysisIn, answer,
                    synthIn, plan, prev >>
    /\ UNCHANGED notGenerator

\* A call that leaves its retrieval and its log of service calls behind.
Return_keeping_context ==
    /\ pc \in {"done", "failed"}
    /\ prev' = [variant |-> variant, req |-> req, fq |-> fq]
    /\ pc' = "idle"
    /\ variant' = "none"
    /\ req' = NoRequest
    /\ fq' = << >>
    /\ response' = << >>
    /\ outcome' = "none"
    /\ UNCHANGED << retrQuery, context, analysisIn, answer, synthIn, plan,
                    calls >>
    /\ UNCHANGED notGenerator

\* The call is over: the caller has the text or the exception, and the
\* local objects of the call are gone.
Return ==
    /\ pc \in {"done", "failed"}
    /\ prev' = [variant |-> variant, req |-> req, fq |-> fq]
    /\ pc' = "idle"
    /\ variant' = "none"
    /\ req' = NoRequest
    /\ fq' = << >>
    /\ retrQuery' = << >>
    /\ context' = << >>
    /\ analysisIn' = NoCombineArgs
    /\ answer' = << >>
    /\ synthIn' = NoPlanArgs
    /\ plan' = << >>
    /\ response' = << >>
    /\ calls' = << >>
    /\ outcome' = "none"
    /\ UNCHANGED notGenerator

Next ==
    \/ \E v \in Variants, r \in Requests : Start(v, r)
    \/ \E docs \in Retrievals : Retrieve(docs)
    \/ RetrieveFail
    \/ \E text \in Analyses \cup Bodies : Combine(text)
    \/ CombineFail
    \/ \E text \in Bodies : Synthesise(text)
    \/ SynthesiseFail
    \/ \E order \in Perms(unique_sources(context)) : Assemble(order)
    \/ Return

Spec == Init /\ [][Next]_vars

(* ------------------- reading the returned text back -------------------- *)

\* The (title, source) pairs of the text's "- title (source)" lines that
\* stand after a "Sources Consulted:" header.
ListedAt(text) ==
    {i \in 1..Len(text) :
        /\ i + 4 <= Len(text)
        /\ text[i] = "- " /\ text[i + 2] = " (" /\ text[i + 4] = ")"
        /\ \E j \in 1..(i - 1) : text[j] = SourcesHeader}

ListedPairs(text) == {<< text[i + 1], text[i + 3] >> : i \in ListedAt(text)}

TimesListed(text, p) ==
    Cardinality({i \in ListedAt(text) : << text[i + 1], text[i + 3] >> = p})

\* The (title, source) pairs of the chunks this request retrieved, a missing
\* title shown as 'Untitled'.
RetrievedPairs ==
    {<< IF d.title = Absent THEN "Untitled" ELSE d.title, d.source >> :
        d \in Range(context)}

\* The line of text that starts with label, without its newline.
LineOf(text, label) ==
    LET from == CHOOSE i \in 1..Len(text) :
                    text[i] = label /\ \A j \in 1..(i - 1) : text[j] # label
        to   == CHOOSE i \in from..Len(text) :
                    text[i] = NL /\ \A j \in from..(i - 1) : text[j] # NL
    IN  SubSeq(text, from, to - 1)

IsSectionHeader(t) == t \in Range(SectionHeaders)

\* The section headers of a text, in the order in which they stand in it.
Headers(text) == SelectSeq(text, IsSectionHeader)

\* How often the call named n was made in this request.
Made(n) == Cardinality({i \in 1..Len(calls) : calls[i].name = n})

CallNames == [i \in 1..Len(calls) |-> calls[i].name]

(* ------------------------------- claims -------------------------------- *)

\* C1 (source fidelity): every (title, source) pair listed under
\* "Sources Consulted" in the returned response belongs to a chunk that the
\* retrieval of this request returned.
C1_SourceFidelity ==
    pc = "done" => ListedPairs(response) \subseteq RetrievedPairs

\* C2 (deduplication): every pair the retrieval returned, whether one chunk
\* or several carry it, is listed under "Sources Consulted" exactly once.
C2_Deduplication ==
    pc = "done" => \A p \in RetrievedPairs : TimesListed(response, p) = 1

\* C3 (stage ordering, main.py): the steps of a request run in the order
\* retrieval, analysis call, synthesis call, assembly; the synthesis call is
\* made only after the analysis call has returned, and the analysis it is
\* given is the text that call returned.
C3_StageOrdering ==
    variant = "main" =>
        /\ \E k \in 0..4 :
              CallNames = SubSeq(<< "retrieval", "analysis", "synthesis", "assembly" >>, 1, k)
        /\ \A i \in 1..Len(calls) :
              calls[i].name = "synthesis" =>
                  /\ i > 1
                  /\ calls[i - 1] = Call("analysis", TRUE)
                  /\ answer \in Analyses
                  /\ synthIn.analysis = answer

\* A request of main.py that ran all four steps.
C3_Witness ==
    /\ pc = "done" /\ variant = "main"
    /\ CallNames = << "retrieval", "analysis", "synthesis", "assembly" >>

\* C4 (failure propagation): a failed retrieval or model call is the last
\* thing the request does: no call is made twice, no step follows a failed
\* one, no text is returned, and the caller gets the error.
C4_FailurePropagation ==
    /\ \A i \in 1..Len(calls) :
          ~calls[i].ok => i = Len(calls) /\ pc = "failed"
    /\ \A i, j \in 1..Len(calls) : calls[i].name = calls[j].name => i = j
    /\ pc = "failed" =>
          /\ calls # << >> /\ ~calls[Len(calls)].ok
          /\ outcome = "error"
          /\ response = << >>
    /\ outcome = "returned" => \A i \in 1..Len(calls) : calls[i].ok

\* The synthesis call of a main.py request has failed.
C4_Witness ==
    /\ pc = "failed" /\ variant = "main"
    /\ calls[Len(calls)] = Call("synthesis", FALSE)

\* C5 (no caching, main.py): a request that returns a plan has made exactly
\* one retrieval, one analysis call and one synthesis call, also when it
\* repeats the request before it.
C5_NoCaching ==
    (pc = "done" /\ variant = "main") =>
        /\ Made("retrieval") = 1
        /\ Made("analysis") = 1
        /\ Made("synthesis") = 1
        /\ retrQuery = fq /\ answer \in Analyses /\ plan \in Bodies

\* A main.py request that repeats the previous one has returned its plan.
C5_Witness ==
    /\ pc = "done" /\ variant = "main"
    /\ prev.variant = "main" /\ prev.req = req

\* The text of the model that the response embeds as the plan body: the
\* synthesis output in main.py, the one model answer in
\* safety_plan_generator.py.
ModelPlan == IF variant = "main" THEN plan ELSE answer

\* C6 as stated (section completeness): the response has the four section
\* headers, once each, in the fixed order.
C6_SectionCompleteness ==
    pc = "done" => Headers(response) = SectionHeaders

\* C6 as amended: the response has the section headers of the plan body it
\* embeds, as often and in the order in which that body has them (the
\* synthesis output in main.py; the model's answer up to its first
\* "Sources Consulted:" in safety_plan_generator.py); the assembly adds,
\* drops and reorders none.
C6_SectionsOfTheBody ==
    pc = "done" =>
        Headers(response) =
            Headers(IF variant = "main" THEN plan
                    ELSE SplitFirst(answer, SourcesHeader))

\* A response with the four sections, once each and in order.
C6_Witness ==
    pc = "done" /\ Headers(response) = SectionHeaders

\* The parts the assembly puts around the plan body.
BannerOf(r) ==
    << NL, PlanTitle, NL, "Neighbourhood: ", r.neighbourhood, NL,
       "Primary Concerns: " >>
    \o Join(", ", [i \in 1..Len(r.crime_type) |-> << r.crime_type[i] >>])
    \o << NL, NL >>

SourceListOf(order) ==
    << NL, NL, SourcesHeader, NL >>
    \o Join(NL, [i \in 1..Len(order) |->
                   << "- ", order[i][1], " (", order[i][2], ")" >>])

FooterOf(v) ==
    IF v = "main" THEN << NL, NL, "----", NL, NL, FooterNote, NL >>
    ELSE << NL, NL, FooterNote, NL >>

\* text is banner, body, source list (each retrieved pair once, in some
\* order) and footer, in this order and with nothing else.
IsAssemblyOf(text, body) ==
    \E order \in Perms(RetrievedPairs) :
        text = BannerOf(req) \o body \o SourceListOf(order) \o FooterOf(variant)

\* C7 as stated (assembly): the response is the banner, the model's plan
\* body verbatim, the "Sources Consulted" list and the footer, whatever the
\* plan body.
C7_AssemblyVerbatim ==
    pc = "done" => IsAssemblyOf(response, ModelPlan)

\* C7 as amended: the response is the banner, the plan body, the "Sources
\* Consulted" list and the footer, where the plan body is the synthesis
\* output verbatim in main.py and, in safety_plan_generator.py, the model's
\* answer cut at its first "Sources Consulted:" and stripped of leading and
\* trailing whitespace.
C7_Assembly ==
    pc = "done" =>
        IsAssemblyOf(response,
                     IF variant = "main" THEN plan
                     ELSE Strip(SplitFirst(answer, SourcesHeader)))

\* A response whose plan body, as the model returned it, itself contains
\* "Sources Consulted:" (one for each generator is reachable; this is the
\* one of safety_plan_generator.py).
C7_Witness ==
    /\ pc = "done" /\ variant = "spg"
    /\ SourcesHeader \in Range(answer)
    /\ context # << >>

\* C8 (banner content): the "Neighbourhood:" line holds the neighbourhood
\* argument, and the "Primary Concerns:" line holds every concern, in the
\* caller's order, with ", " between two concerns and nothing else.
C8_BannerContent ==
    pc = "done" =>
        LET nline == LineOf(response, "Neighbourhood: ")
            cline == LineOf(response, "Primary Concerns: ")
            n     == Len(req.crime_type)
        IN  /\ nline = << "Neighbourhood: ", req.neighbourhood >>
            /\ Len(cline) = 2 * n
            /\ \A k \in 1..n : cline[2 * k] = req.crime_type[k]
            /\ \A k \in 1..(n - 1) : cline[2 * k + 1] = ", "

\* A response to a request with two concerns.
C8_Witness ==
    /\ pc = "done" /\ variant = "main"
    /\ Len(req.crime_type) = 2
    /\ req.neighbourhood = "Agincourt North (129)"

C10_SingleQueryString ==
    (variant = "main" /\ fq # << >>) =>
        /\ Made("retrieval") = 1 => retrQuery = fq
        /\ Made("analysis") = 1 =>
              analysisIn = [input |-> fq, context |-> context]
        /\ Made("synthesis") = 1 =>
              /\ DOMAIN synthIn = {"input", "analysis", "example_safety_plans"}
              /\ synthIn.input = fq
              /\ synthIn.analysis = answer
              /\ synthIn.example_safety_plans = example_safety_plans

\* A main.py request with user context has made its three calls.
C10_Witness ==
    /\ variant = "main" /\ Made("synthesis") = 1 /\ calls[Len(calls)].ok
    /\ req.user_context # << >> /\ context # << >>

(***************************************************************************)
(* The indexer: load_json_data                                             *)
(***************************************************************************)

(* ------------------------------ the corpus ----------------------------- *)

\* Most items of one batch explored.
MaxItems == 3

\* item['markdown'][:1000]
PreviewLength == 1000

Take(text, n) == SubSeq(text, 1, IF Len(text) < n THEN Len(text) ELSE n)

\* A JSON object is a record: `has` is the set of its keys, and the field of
\* a key it lacks holds a filler that the code never reads.
NoMetadata == [sourceURL |-> Absent, url |-> Absent, title |-> Absent]

WellFormedItems ==
    { [has |-> {"markdown", "metadata"}, markdown |-> << "a", " ", "b" >>,
       metadata |-> [sourceURL |-> "https://tps.ca/a", url |-> "https://tps.ca/a?u",
                     title |-> "Crime Prevention"]],
      [has |-> {"markdown", "metadata"}, markdown |-> << "c" >>,
       metadata |-> [sourceURL |-> Absent, url |-> "https://toronto.ca/b",
                     title |-> Absent]] }

MalformedItems ==
    { [has |-> {"markdown"}, markdown |-> << "d" >>, metadata |-> NoMetadata],
      [has |-> {"metadata"}, markdown |-> << >>,
       metadata |-> [sourceURL |-> Absent, url |-> Absent, title |-> "No text"]] }

Items == WellFormedItems \cup MalformedItems

\* A batch with a `data` list, and a batch (a crawl that failed) without.
Batches == { [has |-> {"data"}, data |-> d] : d \in BoundedSeq(Items, MaxItems) }
           \cup { [has |-> {"error"}, data |-> << >>] }

\* The files explored: one or two batches.
Corpora == { << b >> : b \in Batches } \cup { << b, c >> : b, c \in Batches }

(* ---------------------------- load_json_data --------------------------- *)

\* dict.get(key, default)
Get(value, default) == IF value = Absent THEN default ELSE value

\* The Document built from one item.
Document(item) ==
    [page_content |-> item.markdown,
     metadata |-> [source |-> Get(item.metadata.sourceURL,
                                  Get(item.metadata.url, "")),
                   text |-> Take(item.markdown, PreviewLength),
                   title |-> Get(item.metadata.title, "")]]

\* The keys the construction of the Document reads with item[...].
DocumentReads == {"markdown", "metadata"}

item_guard_markdown_only(item) == "markdown" \in item.has

\* `if 'markdown' in item and 'metadata' in item`
item_guard(item) == "markdown" \in item.has /\ "metadata" \in item.has

\* `if 'data' in batch`
batch_guard(batch) == "data" \in batch.has

\* The items the two loops reach, in order.
RECURSIVE loaded_items(_)
loaded_items(data) ==
    IF data = << >> THEN << >>
    ELSE (IF batch_guard(Head(data))
          THEN SelectSeq(Head(data).data, item_guard)
          ELSE << >>) \o loaded_items(Tail(data))

\* item[...] on a key the item lacks raises KeyError.
load_json_raises(data) ==
    \E i \in 1..Len(loaded_items(data)) :
        ~ (DocumentReads \subseteq loaded_items(data)[i].has)

load_json_data(data) ==
    [i \in 1..Len(loaded_items(data)) |-> Document(loaded_items(data)[i])]

KeyError(key) == [type |-> "KeyError", message |-> << key >>]

(* ------------------------------ LoadSpec ------------------------------- *)

LoadInit ==
    /\ NotIndexerInit
    /\ script = "none"
    /\ env = {}
    /\ ipc = "load"
    /\ events = << >>
    /\ error = NoError
    /\ corpus \in Corpora
    /\ documents = << >>
    /\ text_split_chunks = << >>
    /\ collection = EmptyBag
    /\ runs = << >>
    /\ found = << >>

\* load_json_data(file_path) is called and returns or raises.
LoadJson ==
    /\ ipc = "load"
    /\ IF load_json_raises(corpus)
       THEN /\ ipc' = "failed"
            /\ error' = KeyError("metadata")
            /\ UNCHANGED documents
       ELSE /\ ipc' = "split"
            /\ documents' = load_json_data(corpus)
            /\ UNCHANGED error
    /\ UNCHANGED << script, env, events, corpus, text_split_chunks, collection,
                    runs, found >>
    /\ UNCHANGED notIndexer

\* The caller drops the result; load_json_data can be called again.
LoadDone ==
    /\ ipc \in {"split", "failed"}
    /\ ipc' = "load"
    /\ documents' = << >>
    /\ error' = NoError
    /\ UNCHANGED << script, env, events, corpus, text_split_chunks, collection,
                    runs, found >>
    /\ UNCHANGED notIndexer

LoadNext == LoadJson \/ LoadDone

LoadSpec == LoadInit /\ [][LoadNext]_vars

(* ---------------------------- C11 ---------------------------------------*)

\* The places of the corpus: batch b, item i.
Places == { << b, i >> : b \in 1..Len(corpus), i \in 1..MaxItems }

ItemAt(p) == corpus[p[1]].data[p[2]]

\* The places holding an item with both keys, inside a batch with `data`.
WellFormedPlaces ==
    { p \in Places : /\ "data" \in corpus[p[1]].has
                     /\ p[2] <= Len(corpus[p[1]].data)
                     /\ {"markdown", "metadata"} \subseteq ItemAt(p).has }

Before(p, q) == p[1] < q[1] \/ (p[1] = q[1] /\ p[2] < q[2])

\* The position of a well-formed place among the well-formed places.
Rank(p) == 1 + Cardinality({ q \in WellFormedPlaces : Before(q, p) })

\* C11 (graceful skip in the indexer): load_json_data never raises on a
\* corpus whose items may lack `markdown` or `metadata` and whose batches may
\* lack `data`; it returns exactly one document per item that has both keys,
\* in corpus order, so N well-formed items and one item without `metadata`
\* give N documents.
C11_GracefulSkip ==
    /\ ipc # "failed"
    /\ ipc = "split" =>
          /\ Len(documents) = Cardinality(WellFormedPlaces)
          /\ \A p \in WellFormedPlaces :
                /\ documents[Rank(p)].page_content = ItemAt(p).markdown
                /\ documents[Rank(p)].metadata.title
                      = Get(ItemAt(p).metadata.title, "")

\* A batch of two well-formed items and one item without `metadata` has been
\* loaded into two documents.
C11_Witness ==
    /\ ipc = "split"
    /\ Len(corpus) = 1
    /\ Len(corpus[1].data) = 3
    /\ Cardinality(WellFormedPlaces) = 2
    /\ \E i \in 1..3 : corpus[1].data[i].has = {"markdown"}
    /\ Len(documents) = 2

(***************************************************************************)
(* The indexer: text_splitter                                              *)
(*                                                                         *)
(* RecursiveCharacterTextSplitter works on one text.  A piece of that text *)
(* is a slice << a, b >>, the characters a..b; every piece the splitter    *)
(* handles is such a slice, and the pieces it joins are neighbours.        *)
(***************************************************************************)

chunk_size == 1000
chunk_overlap == 200

\* separators=["\n\n", "\n", " ", ""]
Separators == << << NL, NL >>, << NL >>, << " " >>, << >> >>

SliceLen(s) == s[2] - s[1] + 1
SliceText(text, s) == SubSeq(text, s[1], s[2])

\* A for loop over lo..hi with loop state st; the left half is carried out
\* before the right half is entered.
RECURSIVE ForRange(_, _, _, _)
ForRange(Body(_, _), st, lo, hi) ==
    IF lo > hi THEN st
    ELSE IF lo = hi THEN Body(st, lo)
    ELSE LET mid == (lo + hi) \div 2
             left == ForRange(Body, st, lo, mid)
         IN  IF left = left THEN ForRange(Body, left, mid + 1, hi) ELSE left

\* sep occurs in text at position i, inside the slice that ends at hi.
MatchAt(text, hi, sep, i) ==
    /\ i + Len(sep) - 1 <= hi
    /\ \A k \in 1..Len(sep) : text[i + k - 1] = sep[k]

\* re.search(separator, text)
Found(text, s, sep) == \E i \in s[1]..s[2] : MatchAt(text, s[2], sep, i)

\* _split_text_with_regex(text, separator, keep_separator=True): the text is
\* cut in front of every occurrence of the separator, found from left to
\* right; one piece per character for the separator ""; no empty piece.
split_text_with_regex(text, s, sep) ==
    IF sep = << >>
    THEN [i \in 1..SliceLen(s) |-> << s[1] + i - 1, s[1] + i - 1 >>]
    ELSE LET Cut(st, p) ==
                 IF p > st.skip /\ MatchAt(text, s[2], sep, p)
                 THEN [pieces |-> IF st.open < p
                                  THEN Append(st.pieces, << st.open, p - 1 >>)
                                  ELSE st.pieces,
                       open |-> p,
                       skip |-> p + Len(sep) - 1]
                 ELSE st
             end == ForRange(Cut, [pieces |-> << >>, open |-> s[1], skip |-> 0],
                             s[1], s[2])
         IN  IF end.open <= s[2]
             THEN Append(end.pieces, << end.open, s[2] >>)
             ELSE end.pieces

\* text.strip() of a slice.
RECURSIVE StripSlice(_, _)
StripSlice(text, s) ==
    IF s[1] > s[2] THEN s
    ELSE IF text[s[1]] \in Whitespace THEN StripSlice(text, << s[1] + 1, s[2] >>)
    ELSE IF text[s[2]] \in Whitespace THEN StripSlice(text, << s[1], s[2] - 1 >>)
    ELSE s

join_docs_cut(text, s) ==
    IF StripSlice(text, s)[1] > StripSlice(text, s)[2] THEN << >>
    ELSE << << StripSlice(text, s)[1], StripSlice(text, s)[2] - 1 >> >>

\* _join_docs(docs, ""): the pieces joined and stripped; None (no chunk) when
\* nothing is left.
join_docs(text, s) ==
    IF StripSlice(text, s)[1] > StripSlice(text, s)[2] THEN << >>
    ELSE << StripSlice(text, s) >>

\* _merge_splits(splits, ""): splits are neighbouring pieces.  current_doc is
\* splits[st.first .. i-1] when the loop takes up splits[i].
merge_splits(text, splits) ==
    LET Total(j, i) == IF j < i THEN splits[i - 1][2] - splits[j][1] + 1 ELSE 0
        \* the `while` that drops pieces from the front of current_doc
        Drops(j, i) ==
            \/ Total(j, i) > chunk_overlap
            \/ Total(j, i) + SliceLen(splits[i]) > chunk_size /\ Total(j, i) > 0
        Take1(st, i) ==
            IF /\ Total(st.first, i) + SliceLen(splits[i]) > chunk_size
               /\ st.first < i
            THEN [docs |-> st.docs \o join_docs(text, << splits[st.first][1],
                                                        splits[i - 1][2] >>),
                  first |-> CHOOSE j \in st.first..i :
                               /\ ~ Drops(j, i)
                               /\ \A k \in st.first..(j - 1) : Drops(k, i)]
            ELSE st
        end == ForRange(Take1, [docs |-> << >>, first |-> 1], 1, Len(splits))
    IN  IF end.first <= Len(splits)
        THEN end.docs \o join_docs(text, << splits[end.first][1],
                                           splits[Len(splits)][2] >>)
        ELSE end.docs

\* _split_text(text, separators): the chunks of the slice s, as slices.
RECURSIVE split_text(_, _, _)
split_text(text, s, separators) ==
    LET k == CHOOSE i \in 1..Len(separators) :
                 /\ separators[i] = << >> \/ Found(text, s, separators[i])
                 /\ \A j \in 1..(i - 1) :
                       separators[j] # << >> /\ ~ Found(text, s, separators[j])
        separator == separators[k]
        new_separators == IF separator = << >> THEN << >>
                          ELSE SubSeq(separators, k + 1, Len(separators))
        splits == split_text_with_regex(text, s, separator)
        \* _good_splits is splits[st.good .. i-1] when the loop takes up splits[i]
        Merged(st, i) == IF st.good < i
                         THEN merge_splits(text, SubSeq(splits, st.good, i - 1))
                         ELSE << >>
        Take1(st, i) ==
            IF SliceLen(splits[i]) < chunk_size THEN st
            ELSE [final_chunks |->
                      st.final_chunks \o Merged(st, i)
                      \o (IF new_separators = << >> THEN << splits[i] >>
                          ELSE split_text(text, splits[i], new_separators)),
                  good |-> i + 1]
        end == ForRange(Take1, [final_chunks |-> << >>, good |-> 1],
                        1, Len(splits))
    IN  end.final_chunks \o Merged(end, Len(splits) + 1)

\* splitter.split_documents([doc]): one Document per chunk, each with a copy
\* of the metadata of doc.
split_documents(doc) ==
    LET chunks == split_text(doc.page_content, << 1, Len(doc.page_content) >>,
                             Separators)
    IN  [i \in 1..Len(chunks) |->
            [page_content |-> SliceText(doc.page_content, chunks[i]),
             metadata |-> doc.metadata]]

RECURSIVE text_splitter(_)
text_splitter(docs) ==
    IF docs = << >> THEN << >>
    ELSE split_documents(Head(docs)) \o text_splitter(Tail(docs))

(* ------------------------------ SplitSpec ------------------------------ *)

\* The text of length n made of words of w letters with gap between them.
Words(w, gap, n) ==
    [i \in 1..n |-> IF (i - 1) % (w + Len(gap)) < w THEN "x"
                    ELSE gap[((i - 1) % (w + Len(gap))) - w + 1]]

WordLengths == {9, 150, 300, 999, 1200}
Gaps == { << " " >>, << NL >>, << NL, NL >> }
TextLengths == {1001, 1300, 2100}

LongTexts == { Words(w, gap, n) : w \in WordLengths, gap \in Gaps, n \in TextLengths }

PageMetadatas == { [sourceURL |-> "https://tps.ca/a", url |-> Absent,
                    title |-> "Crime Prevention"],
                   [sourceURL |-> Absent, url |-> "https://toronto.ca/b",
                    title |-> Absent] }

\* The documents load_json_data makes of long pages.
LongDocuments ==
    { Document([has |-> {"markdown", "metadata"}, markdown |-> text, metadata |-> m]) :
          text \in LongTexts, m \in PageMetadatas }

SplitInit ==
    /\ NotIndexerInit
    /\ script = "none"
    /\ env = {}
    /\ ipc = "split"
    /\ events = << >>
    /\ error = NoError
    /\ corpus = << >>
    /\ documents \in { << d >> : d \in LongDocuments }
    /\ text_split_chunks = << >>
    /\ collection = EmptyBag
    /\ runs = << >>
    /\ found = << >>

\* text_split_chunks = text_splitter(documents)
Split ==
    /\ ipc = "split"
    /\ text_split_chunks' = text_splitter(documents)
    /\ ipc' = "store"
    /\ UNCHANGED << script, env, events, error, corpus, documents, collection,
                    runs, found >>
    /\ UNCHANGED notIndexer

\* The caller drops the chunks; text_splitter can be called again.
SplitDone ==
    /\ ipc = "store"
    /\ ipc' = "split"
    /\ text_split_chunks' = << >>
    /\ UNCHANGED << script, env, events, error, corpus, documents, collection,
                    runs, found >>
    /\ UNCHANGED notIndexer

SplitNext == Split \/ SplitDone

SplitSpec == SplitInit /\ [][SplitNext]_vars

(* ---------------------------- C18 ---------------------------------------*)

ParentText == documents[1].page_content

\* The windows of the one document split: where each chunk lies in it.
Windows == split_text(ParentText, << 1, Len(ParentText) >>, Separators)

SplitLong == ipc = "store" /\ Len(ParentText) > chunk_size

\* Every chunk is its window w[i] of the text, no longer than the window
\* size, with the metadata of its document; a window begins after the window
\* before it began, at most chunk_overlap characters before that one's end.
WindowsInOrder(w) ==
    /\ Len(text_split_chunks) = Len(w)
    /\ \A i \in 1..Len(w) :
          /\ text_split_chunks[i].page_content = SliceText(ParentText, w[i])
          /\ SliceLen(w[i]) <= chunk_size
          /\ text_split_chunks[i].metadata.source = documents[1].metadata.source
          /\ text_split_chunks[i].metadata.title = documents[1].metadata.title
    /\ \A i \in 2..Len(w) :
          /\ w[i][1] > w[i - 1][1]
          /\ w[i][1] >= w[i - 1][2] + 1 - chunk_overlap

\* The characters of the text that no window holds.
Uncovered(w) ==
    { p \in 1..Len(ParentText) : \A i \in 1..Len(w) : p < w[i][1] \/ w[i][2] < p }

\* C18 as the specification words it: the windows of a document longer than
\* W are at most W long, overlap by at most O, carry the document's source
\* and title, and put together without the overlaps they give back the
\* text, so no character is outside every window.
C18_Reconstructs ==
    SplitLong =>
        LET w == Windows
        IN  WindowsInOrder(w) /\ Uncovered(w) = {}

\* C18 (chunking invariant): the windows of a document longer than W=1000
\* are slices of its text in text order, each at most W long and beginning
\* at most O=200 characters before the end of the window before it, each
\* with the document's source and title; the characters outside every window
\* are whitespace, so the windows give back the text but for whitespace
\* at their joints and at its ends.
C18_Chunking ==
    SplitLong =>
        LET w == Windows
        IN  /\ WindowsInOrder(w)
            /\ \A p \in Uncovered(w) : ParentText[p] \in Whitespace

\* A document longer than W has been split into three windows or more, two
\* of which overlap.
C18_Witness ==
    /\ SplitLong
    /\ Len(text_split_chunks) >= 3
    /\ LET w == Windows
       IN  \E i \in 2..Len(w) : w[i][1] <= w[i - 1][2]

(***************************************************************************)
(* The indexer's main and the start of generate_safety_plan, on one vector *)
(* collection (the index PINECONE_INDEX_NAME names is taken to be the      *)
(* index "torontopolice2" that modified_ingestion.py writes to).           *)
(***************************************************************************)

\* Most ingestion runs explored on one collection.
MaxRuns == 3

\* search_kwargs={"k": 10}
K == 10

Ingestions == {"2_ingestion", "modified_ingestion"}
Scripts == Ingestions \cup {"main"}

EnvNames == {"PINECONE_API_KEY", "PINECONE_INDEX_NAME", "OPENAI_API_KEY"}

\* A client object is built; key is the credential it is given.
Constructed(what, key) == [op |-> "construct", what |-> what, key |-> key]
\* A variable of the environment is looked up and must be there.
Required(name) == [op |-> "require", what |-> name, key |-> name]
\* A request goes to a hosted service.
NetworkCall(what) == [op |-> "network", what |-> what, key |-> ""]

startup_unchecked(s) ==
    IF s = "main"
    THEN << Constructed("OpenAIEmbeddings", "OPENAI_API_KEY"),
            Constructed("PineconeVectorStore", "PINECONE_API_KEY"),
            Constructed("ChatOpenAI", "OPENAI_API_KEY") >>
    ELSE << Constructed("Pinecone", "PINECONE_API_KEY") >>

\* What each program does before it touches the corpus or the collection.
startup(s) ==
    CASE s = "2_ingestion" ->
           << Constructed("Pinecone", "PINECONE_API_KEY"),
              Required("PINECONE_INDEX_NAME") >>
      [] s = "modified_ingestion" ->
           << Required("OPENAI_API_KEY"),
              Constructed("Pinecone", "PINECONE_API_KEY") >>
      [] s = "main" ->
           << Constructed("OpenAIEmbeddings", "OPENAI_API_KEY"),
              Required("PINECONE_INDEX_NAME"),
              Constructed("PineconeVectorStore", "PINECONE_API_KEY"),
              Constructed("ChatOpenAI", "OPENAI_API_KEY") >>

\* raise ValueError("... not found in environment variables"), and the
\* KeyError of os.environ[...] in main.py.
missing_config_error(s, name) ==
    IF s = "main" THEN KeyError(name)
    ELSE [type |-> "ValueError",
          message |-> << name, " not found in environment variables" >>]

\* A client refuses to be built without its credential.
ConfigurationError(key) == [type |-> "ConfigurationError", message |-> << key >>]

NetworkError(what) == [type |-> "NetworkError", message |-> << what >>]

\* The credentials the hosted services ask for.
Credentials == {"PINECONE_API_KEY", "OPENAI_API_KEY"}

(* --------------------------- the vector index -------------------------- *)

\* The chunks of a list, as a bag.
ChunkBag(chunks) ==
    [c \in Range(chunks) |-> Cardinality({i \in 1..Len(chunks) : chunks[i] = c})]

from_documents_upsert(index, chunks) == ChunkBag(chunks)

\* PineconeVectorStore.from_documents: every chunk goes in under a new id.
from_documents(index, chunks) == index (+) ChunkBag(chunks)

\* The similarity of a stored chunk to the query of the request, as the
\* embedding model and the index see it.
Similarity(chunk) ==
    CASE chunk.page_content = << >> -> 0
      [] Head(chunk.page_content) = "a" -> 3
      [] Head(chunk.page_content) \in {"c", "e"} -> 2
      [] OTHER -> 1

RECURSIVE most_similar_first(_, _)
most_similar_first(index, k) ==
    IF k = 0 \/ BagToSet(index) = {} THEN { << >> }
    ELSE LET best == { c \in BagToSet(index) :
                         \A d \in BagToSet(index) : Similarity(d) <= Similarity(c) }
         IN  UNION { { << c >> \o rest :
                         rest \in most_similar_first(index (-) SetToBag({c}), k - 1) }
                     : c \in best }

similarity_search_padded(index, k) ==
    { [i \in 1..k |-> IF i <= Len(r) THEN r[i] ELSE r[Len(r)]] :
          r \in most_similar_first(index, k) \ { << >> } }
    \cup (most_similar_first(index, k) \cap { << >> })

\* The retriever's similarity search: the k most similar chunks of the
\* index, most similar first; chunks of equal similarity in any order.
similarity_search(index, k) == most_similar_first(index, k)

(* ------------------------------ the files ------------------------------ *)

PipelineItems ==
    << [has |-> {"markdown", "metadata"}, markdown |-> << "a", " ", "b" >>,
        metadata |-> [sourceURL |-> "https://tps.ca/a", url |-> "https://tps.ca/a?u",
                      title |-> "Crime Prevention"]],
       [has |-> {"markdown", "metadata"}, markdown |-> << "c" >>,
        metadata |-> [sourceURL |-> Absent, url |-> "https://toronto.ca/b",
                      title |-> Absent]],
       [has |-> {"markdown", "metadata"}, markdown |-> << "e", NL, "f" >>,
        metadata |-> [sourceURL |-> "https://tps.ca/e", url |-> Absent,
                      title |-> "Transit Safety"]],
       [has |-> {"markdown", "metadata"}, markdown |-> << "g" >>,
        metadata |-> [sourceURL |-> Absent, url |-> Absent, title |-> ""]],
       [has |-> {"markdown"}, markdown |-> << "d" >>, metadata |-> NoMetadata] >>

\* torontopublicsafetycorpus.json: four pages and a malformed item; or one
\* page after a failed crawl batch.
PipelineCorpora ==
    { << [has |-> {"data"}, data |-> PipelineItems] >>,
      << [has |-> {"error"}, data |-> << >>],
         [has |-> {"data"}, data |-> SubSeq(PipelineItems, 2, 2)] >> }

(* ----------------------------- PipelineSpec ---------------------------- *)

PipelineInit ==
    /\ NotIndexerInit
    /\ script = "none"
    /\ env = {}
    /\ ipc = "idle"
    /\ events = << >>
    /\ error = NoError
    /\ corpus \in PipelineCorpora
    /\ documents = << >>
    /\ text_split_chunks = << >>
    /\ collection = EmptyBag
    /\ runs = << >>
    /\ found = << >>

\* A program is started (main.py: generate_safety_plan is called) in an
\* environment e.
Launch(s, e) ==
    /\ ipc = "idle"
    /\ s \in Ingestions => Len(runs) < MaxRuns
    /\ script' = s
    /\ env' = e
    /\ ipc' = "startup"
    /\ UNCHANGED << events, error, corpus, documents, text_split_chunks,
                    collection, runs, found >>
    /\ UNCHANGED notIndexer

StartingUp == ipc = "startup" /\ Len(events) < Len(startup(script))

NextStep == startup(script)[Len(events) + 1]

\* The next client is built.
Construct ==
    /\ StartingUp
    /\ NextStep.op = "construct"
    /\ events' = Append(events, NextStep)
    /\ UNCHANGED << script, env, ipc, error, corpus, documents,
                    text_split_chunks, collection, runs, found >>
    /\ UNCHANGED notIndexer

\* The next client is not given its credential and raises.
ConstructFail ==
    /\ StartingUp
    /\ NextStep.op = "construct"
    /\ NextStep.key \notin env
    /\ ipc' = "failed"
    /\ error' = ConfigurationError(NextStep.key)
    /\ UNCHANGED << script, env, events, corpus, documents, text_split_chunks,
                    collection, runs, found >>
    /\ UNCHANGED notIndexer

\* The variable the program asks for is set.
Require ==
    /\ StartingUp
    /\ NextStep.op = "require"
    /\ NextStep.what \in env
    /\ events' = Append(events, NextStep)
    /\ UNCHANGED << script, env, ipc, error, corpus, documents,
                    text_split_chunks, collection, runs, found >>
    /\ UNCHANGED notIndexer

\* The variable the program asks for is not set.
RequireFail ==
    /\ StartingUp
    /\ NextStep.op = "require"
    /\ NextStep.what \notin env
    /\ ipc' = "failed"
    /\ error' = missing_config_error(script, NextStep.what)
    /\ UNCHANGED << script, env, events, corpus, documents, text_split_chunks,
                    collection, runs, found >>
    /\ UNCHANGED notIndexer

\* The start is over: the indexer reads the corpus, generate_safety_plan
\* invokes its chain.
StartupDone ==
    /\ ipc = "startup"
    /\ Len(events) = Len(startup(script))
    /\ ipc' = IF script = "main" THEN "search" ELSE "load"
    /\ UNCHANGED << script, env, events, error, corpus, documents,
                    text_split_chunks, collection, runs, found >>
    /\ UNCHANGED notIndexer

StoreEvents == << Constructed("OpenAIEmbeddings", "OPENAI_API_KEY"),
                  NetworkCall("embed_documents"),
                  NetworkCall("upsert") >>

\* PineconeVectorStore.from_documents embeds the chunks and stores them.
Store ==
    /\ ipc = "store"
    /\ Credentials \subseteq env
    /\ events' = events \o StoreEvents
    /\ collection' = from_documents(collection, text_split_chunks)
    /\ runs' = Append(runs, "stored")
    /\ ipc' = "done"
    /\ UNCHANGED << script, env, error, corpus, documents, text_split_chunks,
                    found >>
    /\ UNCHANGED notIndexer

\* from_documents raises; the first n chunks had been stored by then (none
\* when the services turn the credentials down).
StoreFail(n) ==
    /\ ipc = "store"
    /\ n \in 0..Len(text_split_chunks)
    /\ ~ (Credentials \subseteq env) => n = 0
    /\ events' = events \o StoreEvents
    /\ collection' = from_documents(collection, SubSeq(text_split_chunks, 1, n))
    /\ runs' = Append(runs, "aborted")
    /\ ipc' = "failed"
    /\ error' = NetworkError("from_documents")
    /\ UNCHANGED << script, env, corpus, documents, text_split_chunks, found >>
    /\ UNCHANGED notIndexer

SearchEvents == << NetworkCall("embed_query"), NetworkCall("query") >>

\* Step 2 of generate_safety_plan: the retriever answers.
Search(docs) ==
    /\ ipc = "search"
    /\ Credentials \subseteq env
    /\ docs \in similarity_search(collection, K)
    /\ events' = events \o SearchEvents
    /\ found' = docs
    /\ ipc' = "done"
    /\ UNCHANGED << script, env, error, corpus, documents, text_split_chunks,
                    collection, runs >>
    /\ UNCHANGED notIndexer

\* Step 2 raises.
SearchFail ==
    /\ ipc = "search"
    /\ events' = events \o SearchEvents
    /\ ipc' = "failed"
    /\ error' = NetworkError("retrieval")
    /\ UNCHANGED << script, env, corpus, documents, text_split_chunks,
                    collection, runs, found >>
    /\ UNCHANGED notIndexer

\* The program is over; its local objects are gone, the collection stays.
Exit ==
    /\ ipc \in {"done", "failed"}
    /\ script' = "none"
    /\ env' = {}
    /\ ipc' = "idle"
    /\ events' = << >>
    /\ error' = NoError
    /\ documents' = << >>
    /\ text_split_chunks' = << >>
    /\ found' = << >>
    /\ UNCHANGED << corpus, collection, runs >>
    /\ UNCHANGED notIndexer

PipelineNext ==
    \/ \E s \in Scripts, e \in SUBSET EnvNames : Launch(s, e)
    \/ Construct
    \/ ConstructFail
    \/ Require
    \/ RequireFail
    \/ StartupDone
    \/ LoadJson
    \/ Split
    \/ Store
    \/ \E n \in 0..Len(text_split_chunks) : StoreFail(n)
    \/ \E docs \in similarity_search(collection, K) : Search(docs)
    \/ SearchFail
    \/ Exit

PipelineSpec == PipelineInit /\ [][PipelineNext]_vars

(* ---------------------------- C12 ---------------------------------------*)

\* The variable each program cannot do without.
RequiredVariable(s) ==
    IF s = "modified_ingestion" THEN "OPENAI_API_KEY" ELSE "PINECONE_INDEX_NAME"

NetworkCallsMade == { i \in 1..Len(events) : events[i].op = "network" }

\* C12 (fail fast on missing configuration): a program started without its
\* required variable (PINECONE_INDEX_NAME for 2_ingestion.main and
\* generate_safety_plan, OPENAI_API_KEY for modified_ingestion.main) never
\* gets past its start: it makes no network call, uses no client (the
\* clients built by then have sent nothing), and the error that stops it
\* names a variable that is not set.
C12_FailFast ==
    (script \in Scripts /\ RequiredVariable(script) \notin env) =>
        /\ NetworkCallsMade = {}
        /\ ipc \in {"startup", "failed"}
        /\ ipc = "failed" =>
              /\ error.type \in {"ValueError", "KeyError", "ConfigurationError"}
              /\ Head(error.message) \in EnvNames \ env

\* generate_safety_plan without PINECONE_INDEX_NAME: the embedding client
\* has been built, the KeyError names the variable, nothing was sent.
C12_Witness ==
    /\ script = "main"
    /\ "PINECONE_INDEX_NAME" \notin env
    /\ ipc = "failed"
    /\ error = KeyError("PINECONE_INDEX_NAME")
    /\ events = << Constructed("OpenAIEmbeddings", "OPENAI_API_KEY") >>

(* ---------------------------- C17 ---------------------------------------*)

AllStored == \A i \in 1..Len(runs) : runs[i] = "stored"

\* C17 (ingestion is not idempotent): after n ingestion runs over the same
\* corpus file, each of which stored its chunks, the collection holds n
\* copies of every chunk of the corpus and nothing else; a re-run adds its
\* chunks to those of the earlier runs.
C17_NotIdempotent ==
    AllStored =>
        /\ \A c \in BagToSet(collection) : CopiesIn(c, collection) = Len(runs)
        /\ (script \in Ingestions /\ ipc = "done") =>
              \A i \in 1..Len(text_split_chunks) :
                  CopiesIn(text_split_chunks[i], collection) = Len(runs)

\* The third run over the four-page corpus has stored its four chunks on top
\* of the eight of the earlier runs.
C17_Witness ==
    /\ script \in Ingestions
    /\ ipc = "done"
    /\ runs = << "stored", "stored", "stored" >>
    /\ Len(text_split_chunks) = 4
    /\ BagCardinality(collection) = 12

(* ---------------------------- C19 ---------------------------------------*)

Retrieved == script = "main" /\ ipc = "done"

Descending(docs) ==
    \A i \in 1..Len(docs), j \in 1..Len(docs) :
        i < j => Similarity(docs[i]) >= Similarity(docs[j])

\* C19 as the specification words it: the retrieval returns exactly K chunks
\* by descending similarity whatever the collection holds.
C19_ExactlyK ==
    Retrieved => Len(found) = K /\ Descending(found)

\* C19 (retrieval result shape): the retrieval returns the K most similar
\* chunks of the collection by descending similarity, and all of the
\* collection when it holds fewer than K chunks: min(K, size) chunks, each
\* returned no oftener than it is stored, none less similar than a chunk
\* left out.
C19_AtMostK ==
    Retrieved =>
        /\ Len(found) = IF BagCardinality(collection) < K
                        THEN BagCardinality(collection) ELSE K
        /\ Descending(found)
        /\ ChunkBag(found) \sqsubseteq collection
        /\ \A c \in BagToSet(collection (-) ChunkBag(found)) :
              \A i \in 1..Len(found) : Similarity(c) <= Similarity(found[i])

\* A retrieval from a collection of twelve chunks has returned ten.
C19_Witness ==
    /\ Retrieved
    /\ BagCardinality(collection) = 12
    /\ Len(found) = K

(***************************************************************************)
(* The crawler: crawl_with_retry and the crawl loop                        *)
(***************************************************************************)

\* Most URLs of the sheet explored.
MaxLinks == 2

\* crawl_with_retry(app, link, max_retries=3)
max_retries == 3

\* extract_wait_time: `return 60`
default_wait == 60

\* 1_informationretreival.py: time.sleep(wait_time + 60)
retry_buffer == 60

Crawlers == {"original", "modified"}

Links == {"https://www.tps.ca/", "https://www.toronto.ca/safety"}

\* What app.crawl_url returns for a URL.
CrawlResult(url) == [url |-> url, kind |-> "result"]
\* crawl_with_retry's `return None` and `return "STOP_ALL"`.
NoResult == [url |-> "", kind |-> "None"]
StopAll == [url |-> "", kind |-> "STOP_ALL"]

\* The exceptions of app.crawl_url: the marks str(e) carries, and the number
\* of its "retry after <N>s" (0: no such text).
CrawlErrors ==
    { [marks |-> {"429"}, retry_after |-> 30],
      [marks |-> {"429"}, retry_after |-> 0],
      [marks |-> {"Payment Required"}, retry_after |-> 0],
      [marks |-> {"429", "Payment Required"}, retry_after |-> 0],
      [marks |-> {}, retry_after |-> 0] }

\* One call of app.crawl_url: it returned, or it raised e.
NoException == [marks |-> {}, retry_after |-> 0]
Try(ok, e) == [ok |-> ok, error |-> e]

extract_wait_time(e) == IF e.retry_after # 0 THEN e.retry_after ELSE default_wait

on_crawl_error_retry_all(c, e, n) ==
    IF c = "modified" /\ "Payment Required" \in e.marks THEN "stop"
    ELSE IF n < max_retries - 1 THEN "retry"
    ELSE "give up"

on_crawl_error_unbounded(c, e, n) ==
    IF c = "modified" /\ "Payment Required" \in e.marks THEN "stop"
    ELSE IF "429" \in e.marks THEN "retry"
    ELSE "give up"

\* What crawl_with_retry does with an exception at this attempt: "stop"
\* (return "STOP_ALL"), "retry" (sleep and try again) or "give up" (return
\* None).
on_crawl_error(c, e, n) ==
    IF c = "modified" /\ "Payment Required" \in e.marks THEN "stop"
    ELSE IF "429" \in e.marks /\ n < max_retries - 1 THEN "retry"
    ELSE "give up"

\* The sleep before the retry.
retry_sleep(c, e) ==
    IF c = "original" THEN extract_wait_time(e) + retry_buffer
    ELSE extract_wait_time(e)

keep_result_always(kept, result) == Append(kept, result)

\* `if result is not None: crawl_results.append(result)`
keep_result(kept, result) ==
    IF result # NoResult THEN Append(kept, result) ELSE kept

written_file_empty(c, kept, old) == << >>

\* The dump at the end: always (original), only of a non-empty list
\* (modified).
written_file(c, kept, old) ==
    IF c = "original" \/ kept # << >> THEN kept ELSE old

(* ------------------------------ CrawlSpec ------------------------------ *)

CrawlInit ==
    /\ NotCrawlerInit
    /\ crawler \in Crawlers
    /\ resources \in BoundedSeq(Links, MaxLinks)
    /\ cpc = "loop"
    /\ link = 1
    /\ attempt = 0
    /\ waited = << >>
    /\ tries = << >>
    /\ crawl_results = << >>
    /\ outcomes = << >>
    /\ json_file = NoFile

\* `for link in resources`: crawl_with_retry is called for the next URL.
TakeLink ==
    /\ cpc = "loop"
    /\ link <= Len(resources)
    /\ cpc' = "try"
    /\ attempt' = 0
    /\ waited' = << >>
    /\ tries' = << >>
    /\ UNCHANGED << crawler, resources, link, crawl_results, outcomes, json_file >>
    /\ UNCHANGED notCrawler

\* app.crawl_url returns: crawl_with_retry returns the result and the loop
\* keeps it (and pauses).
CrawlReturns ==
    /\ cpc = "try"
    /\ crawl_results' = keep_result(crawl_results, CrawlResult(resources[link]))
    /\ outcomes' = Append(outcomes, "crawled")
    /\ tries' = Append(tries, Try(TRUE, NoException))
    /\ link' = link + 1
    /\ cpc' = "loop"
    /\ UNCHANGED << crawler, resources, attempt, waited, json_file >>
    /\ UNCHANGED notCrawler

\* app.crawl_url raises a rate-limit error and an attempt is left.
CrawlRetries(e) ==
    /\ cpc = "try"
    /\ on_crawl_error(crawler, e, attempt) = "retry"
    /\ waited' = Append(waited, retry_sleep(crawler, e))
    /\ tries' = Append(tries, Try(FALSE, e))
    /\ attempt' = attempt + 1
    /\ UNCHANGED << crawler, resources, cpc, link, crawl_results, outcomes,
                    json_file >>
    /\ UNCHANGED notCrawler

\* app.crawl_url raises and crawl_with_retry returns None: the loop skips
\* the URL.
CrawlGivesUp(e) ==
    /\ cpc = "try"
    /\ on_crawl_error(crawler, e, attempt) = "give up"
    /\ crawl_results' = keep_result(crawl_results, NoResult)
    /\ outcomes' = Append(outcomes, IF "429" \in e.marks THEN "rate limited"
                                    ELSE "error")
    /\ tries' = Append(tries, Try(FALSE, e))
    /\ link' = link + 1
    /\ cpc' = "loop"
    /\ UNCHANGED << crawler, resources, attempt, waited, json_file >>
    /\ UNCHANGED notCrawler

\* app.crawl_url raises "Payment Required" (modified crawler):
\* crawl_with_retry returns "STOP_ALL" and the loop breaks.
CrawlStops(e) ==
    /\ cpc = "try"
    /\ on_crawl_error(crawler, e, attempt) = "stop"
    /\ outcomes' = Append(outcomes, "stopped")
    /\ tries' = Append(tries, Try(FALSE, e))
    /\ cpc' = "save"
    /\ UNCHANGED << crawler, resources, link, attempt, waited, crawl_results,
                    json_file >>
    /\ UNCHANGED notCrawler

\* The loop has taken up every URL.
LoopEnds ==
    /\ cpc = "loop"
    /\ link > Len(resources)
    /\ cpc' = "save"
    /\ UNCHANGED << crawler, resources, link, attempt, waited, tries,
                    crawl_results, outcomes, json_file >>
    /\ UNCHANGED notCrawler

\* Part 3: the results are written to JSON_FILE.
WriteFile ==
    /\ cpc = "save"
    /\ json_file' = written_file(crawler, crawl_results, json_file)
    /\ cpc' = "end"
    /\ UNCHANGED << crawler, resources, link, attempt, waited, tries,
                    crawl_results, outcomes >>
    /\ UNCHANGED notCrawler

CrawlNext ==
    \/ TakeLink
    \/ CrawlReturns
    \/ \E e \in CrawlErrors : CrawlRetries(e)
    \/ \E e \in CrawlErrors : CrawlGivesUp(e)
    \/ \E e \in CrawlErrors : CrawlStops(e)
    \/ LoopEnds
    \/ WriteFile

CrawlSpec == CrawlInit /\ [][CrawlNext]_vars

(* ---------------------------- C13 ---------------------------------------*)

\* The URLs (by their place in the sheet) whose crawl gave a result.
Crawled == { i \in 1..Len(outcomes) : outcomes[i] = "crawled" }

LoopOver == cpc \in {"save", "end"}

\* C13 (crawler partial-failure policy): crawl_results holds, in sheet
\* order, exactly one entry for each URL whose crawl succeeded and nothing
\* for skipped URLs; a URL whose attempts are used up by 429 errors is
\* skipped and the loop goes on: when the loop is over every URL of the
\* sheet has been taken up, unless the modified crawler stopped for lack of
\* credits.
C13_PartialFailure ==
    /\ Len(crawl_results) = Cardinality(Crawled)
    /\ \A i \in Crawled :
          crawl_results[Cardinality({ j \in Crawled : j <= i })]
              = CrawlResult(resources[i])
    /\ \A i \in 1..Len(outcomes) :
          outcomes[i] = "rate limited" =>
              /\ link > i
              /\ LoopOver => (i < Len(resources) => Len(outcomes) > i)
    /\ LoopOver =>
          \/ Len(outcomes) = Len(resources)
          \/ crawler = "modified" /\ outcomes[Len(outcomes)] = "stopped"

\* The first URL was given up after three 429 errors, the second one was
\* crawled, and the loop is over with that one result.
C13_Witness ==
    /\ LoopOver
    /\ outcomes = << "rate limited", "crawled" >>
    /\ crawl_results = << CrawlResult(resources[2]) >>

(* ======================= the evaluation harness ======================== *)
(* evals_LLMOutput_V3.py replays every test case through the generator and  *)
(* writes generated_answers.json and rag_results.csv;                       *)
(* evals_precision_recall_V3.py reads the answers back and writes           *)
(* precision_recall_results.csv; FINAL_run_all_evals.py puts the two files  *)
(* side by side. The three scripts are run one after the other.             *)

MaxCases == 3

\* A python dict with string keys: the list of its (key, value) pairs in
\* insertion order, every key once.
dict_has(d, k) == \E i \in 1..Len(d) : d[i][1] = k
dict_get(d, k) == d[CHOOSE i \in 1..Len(d) : d[i][1] = k][2]
dict_set(d, k, v) ==
    IF dict_has(d, k)
    THEN [i \in 1..Len(d) |-> IF d[i][1] = k THEN << k, v >> ELSE d[i]]
    ELSE Append(d, << k, v >>)

\* The test cases: the keys an entry of "questions" has, and its values.
CaseKeys == {"question", "metadata", "ground_truth_context", "ground_truth"}
CaseQuestions == {"LOCATION: Agincourt", "LOCATION: York"}
TestCase(q, has) ==
    [has |-> has,
     question |-> q,
     ground_truth_context |-> << "reference chunk" >>,
     ground_truth |-> << "reference", "plan" >>]
TestCases ==
    { TestCase(q, CaseKeys \ m) :
        q \in CaseQuestions,
        m \in {{}, {"metadata"}, {"ground_truth_context"}} }

\* What a call of generate_safety_plan gives the harness: the text it
\* returns, or an exception. The chunks it retrieved stay inside the call.
Raised == [raised |-> TRUE, result |-> "", retrieved |-> << >>]
GeneratorOutcomes ==
    { [raised |-> FALSE, result |-> "plan 1",
       retrieved |-> << "reference chunk" >>],
      [raised |-> FALSE, result |-> "plan 2",
       retrieved |-> << "other chunk", "reference chunk" >>],
      Raised }

\* `" ".join(xs)`
join_blank(xs) == Join(" ", [i \in 1..Len(xs) |-> << xs[i] >>])

\* The body of the try block of run_rag_evaluation for test case tc, the
\* generator ending in out: the statements up to the first one that raises.
\* st holds results, generated_answers and the log of retrievals.
try_body(st, tc, out) ==
    IF "metadata" \notin tc.has \/ out.raised
    THEN [st EXCEPT !.raised = TRUE]
    ELSE LET s1 == [st EXCEPT
                      !.generated_answers =
                          dict_set(@, tc.question, out.result),
                      !.results.question = Append(@, tc.question),
                      !.results.answer = Append(@, out.result)]
         IN  IF "ground_truth_context" \notin tc.has
             THEN [s1 EXCEPT !.raised = TRUE]
             ELSE
         LET s2 == [s1 EXCEPT
                      !.results.contexts =
                          Append(@, tc.ground_truth_context),
                      !.retrieved_log = Append(@, out.retrieved)]
         IN  IF "ground_truth" \notin tc.has
             THEN [s2 EXCEPT !.raised = TRUE]
             ELSE [s2 EXCEPT
                     !.results.ground_truths = Append(@, tc.ground_truth),
                     !.results.reference =
                         Append(@, join_blank(tc.ground_truth_context))]

\* `Dataset.from_dict(cols)` raises unless the columns have one length.
same_length(cols) ==
    \A a, b \in DOMAIN cols : Len(cols[a]) = Len(cols[b])

\* The rows of `scores.to_pandas()`: the columns of the dataset (and the
\* two scores of each row, which are left out).
rag_rows(cols) ==
    [i \in 1..Len(cols.question) |->
        [question |-> cols.question[i],
         answer |-> cols.answer[i],
         contexts |-> cols.contexts[i],
         ground_truths |-> cols.ground_truths[i],
         reference |-> cols.reference[i]]]

\* The guard of a test case in evaluate_context_metrics.
has_answer_never(answers, question) == FALSE
has_answer(answers, question) == dict_has(answers, question)

\* The rows of the DataFrame of evaluate_context_metrics; the two scores of
\* a row are those of sample i, named here by the sample's question.
pr_rows(cols) ==
    [i \in 1..Len(cols.question) |->
        [Question |-> cols.question[i],
         Context |-> cols.contexts[i],
         Scores |-> cols.question[i]]]

\* `pd.concat([rag_results, precision_recall[[...]]], axis=1)`: the rows
\* are paired by position and the shorter frame is padded with NaN.
NaN == "NaN"
concat(rag, pr) ==
    LET n == IF Len(rag) > Len(pr) THEN Len(rag) ELSE Len(pr)
    IN  [i \in 1..n |->
            [question |-> IF i <= Len(rag) THEN rag[i].question ELSE NaN,
             answer |-> IF i <= Len(rag) THEN rag[i].answer ELSE NaN,
             Scores |-> IF i <= Len(pr) THEN pr[i].Scores ELSE NaN]]

\* `except Exception as e: print(...); continue`, where the loop is at i.
on_case_error_silent(log, i) == log
on_case_error(log, i) == Append(log, << "error", i >>)

(* ------------------------------- EvalSpec ------------------------------ *)

EvalInit ==
    /\ NotHarnessInit
    /\ test_cases \in BoundedSeq(TestCases, MaxCases)
    /\ epc = "generate"
    /\ case_i = 1
    /\ results = NoResults
    /\ generated_answers = << >>
    /\ retrieved_log = << >>
    /\ reported = << >>
    /\ answers_file = NotWritten
    /\ rag_csv = NotWritten
    /\ data_samples = NoSamples
    /\ pr_csv = NotWritten
    /\ eval_csv = NotWritten

\* One pass of the loop of run_rag_evaluation.
ProcessCase(out) ==
    /\ epc = "generate"
    /\ case_i <= Len(test_cases)
    /\ LET st == try_body([results |-> results,
                           generated_answers |-> generated_answers,
                           retrieved_log |-> retrieved_log,
                           raised |-> FALSE],
                          test_cases[case_i], out)
       IN  /\ results' = st.results
           /\ generated_answers' = st.generated_answers
           /\ retrieved_log' = st.retrieved_log
           /\ reported' = IF st.raised
                          THEN on_case_error(reported, case_i)
                          ELSE reported
    /\ case_i' = case_i + 1
    /\ UNCHANGED << test_cases, epc, answers_file, rag_csv, data_samples,
                    pr_csv, eval_csv >>
    /\ UNCHANGED notHarness

\* After the loop: generated_answers.json is written.
SaveAnswers ==
    /\ epc = "generate"
    /\ case_i > Len(test_cases)
    /\ answers_file' = Written(generated_answers)
    /\ epc' = "dataset"
    /\ UNCHANGED << test_cases, case_i, results, generated_answers,
                    retrieved_log, reported, rag_csv, data_samples, pr_csv,
                    eval_csv >>
    /\ UNCHANGED notHarness

\* The dataset is built and scored, and rag_results.csv is written.
RagResults ==
    /\ epc = "dataset"
    /\ same_length(results)
    /\ rag_csv' = Written(rag_rows(results))
    /\ epc' = "samples"
    /\ case_i' = 1
    /\ UNCHANGED << test_cases, results, generated_answers, retrieved_log,
                    reported, answers_file, data_samples, pr_csv, eval_csv >>
    /\ UNCHANGED notHarness

\* Dataset.from_dict raises (columns of different lengths), or the scoring
\* does: the script ends without rag_results.csv.
RagRaises ==
    /\ epc = "dataset"
    /\ epc' = "samples"
    /\ case_i' = 1
    /\ UNCHANGED << test_cases, results, generated_answers, retrieved_log,
                    reported, answers_file, rag_csv, data_samples, pr_csv,
                    eval_csv >>
    /\ UNCHANGED notHarness

\* One pass of the loop of evaluate_context_metrics: the question has a
\* stored answer.
Sample ==
    /\ epc = "samples"
    /\ case_i <= Len(test_cases)
    /\ LET tc == test_cases[case_i]
       IN  /\ has_answer(answers_file.rows, tc.question)
           /\ {"ground_truth_context", "ground_truth"} \subseteq tc.has
           /\ data_samples' =
                 [data_samples EXCEPT
                    !.question = Append(@, tc.question),
                    !.answer = Append(@, dict_get(answers_file.rows,
                                                  tc.question)),
                    !.contexts = Append(@, tc.ground_truth_context),
                    !.ground_truth = Append(@, join_blank(tc.ground_truth))]
    /\ case_i' = case_i + 1
    /\ UNCHANGED << test_cases, epc, results, generated_answers,
                    retrieved_log, reported, answers_file, rag_csv, pr_csv,
                    eval_csv >>
    /\ UNCHANGED notHarness

\* The question has no stored answer: a warning, and the loop goes on.
SampleWarns ==
    /\ epc = "samples"
    /\ case_i <= Len(test_cases)
    /\ ~has_answer(answers_file.rows, test_cases[case_i].question)
    /\ reported' = Append(reported, << "warning", case_i >>)
    /\ case_i' = case_i + 1
    /\ UNCHANGED << test_cases, epc, results, generated_answers,
                    retrieved_log, answers_file, rag_csv, data_samples,
                    pr_csv, eval_csv >>
    /\ UNCHANGED notHarness

\* The question has a stored answer and the test case lacks a key: the
\* KeyError ends the script, two lists are one entry ahead.
SampleRaises ==
    /\ epc = "samples"
    /\ case_i <= Len(test_cases)
    /\ LET tc == test_cases[case_i]
       IN  /\ has_answer(answers_file.rows, tc.question)
           /\ ~ ({"ground_truth_context", "ground_truth"} \subseteq tc.has)
           /\ data_samples' =
                 [data_samples EXCEPT
                    !.question = Append(@, tc.question),
                    !.answer = Append(@, dict_get(answers_file.rows,
                                                  tc.question)),
                    !.contexts =
                        IF "ground_truth_context" \in tc.has
                        THEN Append(@, tc.ground_truth_context) ELSE @]
    /\ epc' = "concat"
    /\ UNCHANGED << test_cases, case_i, results, generated_answers,
                    retrieved_log, reported, answers_file, rag_csv, pr_csv,
                    eval_csv >>
    /\ UNCHANGED notHarness

\* After the loop: the samples are scored and precision_recall_results.csv
\* is written.
PrecisionResults ==
    /\ epc = "samples"
    /\ case_i > Len(test_cases)
    /\ pr_csv' = Written(pr_rows(data_samples))
    /\ epc' = "concat"
    /\ UNCHANGED << test_cases, case_i, results, generated_answers,
                    retrieved_log, reported, answers_file, rag_csv,
                    data_samples, eval_csv >>
    /\ UNCHANGED notHarness

\* FINAL_run_all_evals.py: the two files side by side.
Concat ==
    /\ epc = "concat"
    /\ rag_csv.exists /\ pr_csv.exists
    /\ eval_csv' = Written(concat(rag_csv.rows, pr_csv.rows))
    /\ epc' = "end"
    /\ UNCHANGED << test_cases, case_i, results, generated_answers,
                    retrieved_log, reported, answers_file, rag_csv,
                    data_samples, pr_csv >>
    /\ UNCHANGED notHarness

\* read_csv raises: one of the two files was not written.
ConcatRaises ==
    /\ epc = "concat"
    /\ ~ (rag_csv.exists /\ pr_csv.exists)
    /\ epc' = "end"
    /\ UNCHANGED << test_cases, case_i, results, generated_answers,
                    retrieved_log, reported, answers_file, rag_csv,
                    data_samples, pr_csv, eval_csv >>
    /\ UNCHANGED notHarness

EvalNext ==
    \/ \E out \in GeneratorOutcomes : ProcessCase(out)
    \/ SaveAnswers
    \/ RagResults
    \/ RagRaises
    \/ Sample
    \/ SampleWarns
    \/ SampleRaises
    \/ PrecisionResults
    \/ Concat
    \/ ConcatRaises

EvalSpec == EvalInit /\ [][EvalNext]_vars

(* ------------------------------ C14 ------------------------------------ *)

\* The test cases evaluate_context_metrics has gone through: those before
\* case_i inside the loop, all of them once the loop has ended normally.
SamplesLoopEnded == pr_csv.exists
SamplesTaken ==
    IF epc = "samples" THEN 1..(case_i - 1)
    ELSE IF SamplesLoopEnded THEN 1..Len(test_cases)
    ELSE {}

\* Those of them whose question has an entry in generated_answers.json.
WithAnswer ==
    { j \in SamplesTaken :
        \E i \in 1..Len(answers_file.rows) :
            answers_file.rows[i][1] = test_cases[j].question }

StoredAnswer(q) ==
    answers_file.rows[CHOOSE i \in 1..Len(answers_file.rows) :
                          answers_file.rows[i][1] = q][2]

Warned(j) == \E r \in 1..Len(reported) : reported[r] = << "warning", j >>

\* C14 (evaluation-time missing answer): a test question without a stored
\* answer gets a warning and no sample, and the loop goes on to the end of
\* the test set; the four lists of data_samples have one length and hold, in
\* test-set order, one position for every test case whose question had an
\* answer: its question, the stored answer, its reference context and its
\* joined ground truth.
C14_MissingAnswerSkipped ==
    (epc = "samples" \/ SamplesLoopEnded) =>
        /\ \A j \in SamplesTaken \ WithAnswer : Warned(j)
        /\ \A j \in WithAnswer : ~Warned(j)
        /\ Len(data_samples.question) = Cardinality(WithAnswer)
        /\ Len(data_samples.answer) = Cardinality(WithAnswer)
        /\ Len(data_samples.contexts) = Cardinality(WithAnswer)
        /\ Len(data_samples.ground_truth) = Cardinality(WithAnswer)
        /\ \A j \in WithAnswer :
              LET k == Cardinality({ h \in WithAnswer : h <= j })
                  tc == test_cases[j]
              IN  /\ data_samples.question[k] = tc.question
                  /\ data_samples.answer[k] = StoredAnswer(tc.question)
                  /\ data_samples.contexts[k] = tc.ground_truth_context
                  /\ data_samples.ground_truth[k]
                         = << "reference", " ", "plan" >>

\* The first question had no answer and was skipped with a warning, the
\* second one had one, and the loop ended with that one sample.
C14_Witness ==
    /\ SamplesLoopEnded
    /\ Len(test_cases) = 2
    /\ Warned(1)
    /\ WithAnswer = {2}
    /\ data_samples.question = << test_cases[2].question >>

(* ------------------------------ C15 ------------------------------------ *)

\* C15 (harness records retrieved contexts): every entry of
\* results["contexts"], the contexts handed to the metrics library, is the
\* list of chunks the generator retrieved in the call that produced the
\* answer of the same row.
C15_RetrievedContexts ==
    /\ Len(results.contexts) = Len(retrieved_log)
    /\ \A i \in 1..Len(results.contexts) :
          results.contexts[i] = retrieved_log[i]

(* ------------------------------ C20 ------------------------------------ *)

\* C20 (row alignment of the two evaluation outputs): once both files are
\* written, rag_results.csv and precision_recall_results.csv have the same
\* number of rows and row i of both is about the same question, and every
\* row of the concatenation pairs a question with the precision and recall
\* scores of that question.
C20_RowAlignment ==
    /\ (rag_csv.exists /\ pr_csv.exists) =>
          /\ Len(rag_csv.rows) = Len(pr_csv.rows)
          /\ \A i \in 1..Len(rag_csv.rows) :
                rag_csv.rows[i].question = pr_csv.rows[i].Question
    /\ eval_csv.exists =>
          \A i \in 1..Len(eval_csv.rows) :
              eval_csv.rows[i].Scores = eval_csv.rows[i].question

(* ------------------------------ C16 ------------------------------------ *)

CasesDone ==
    IF epc = "generate" THEN 1..(case_i - 1) ELSE 1..Len(test_cases)

\* C21 (result lists stay aligned): whatever test cases have been gone
\* through, the five lists of results have one length, position i of every
\* list comes from one and the same test case, and the keys of
\* generated_answers are the questions of the rows.
C21_ListsAligned ==
    /\ \A a, b \in DOMAIN results : Len(results[a]) = Len(results[b])
    /\ \A i \in 1..Len(results.question) :
          \E j \in CasesDone :
              /\ results.question[i] = test_cases[j].question
              /\ results.contexts[i] = test_cases[j].ground_truth_context
              /\ results.ground_truths[i] = test_cases[j].ground_truth
    /\ { generated_answers[i][1] : i \in 1..Len(generated_answers) }
          = { results.question[i] : i \in 1..Len(results.question) }

(* ------------------------------ C22 ------------------------------------ *)

\* The cases whose exception was reported, in the order of the reports.
ErrorReports ==
    SelectSeq(reported, LAMBDA r : r[1] = "error")

\* C22 (per-question failure isolation): the loop goes through the test
\* cases one by one in test-set order; every case gone through has either
\* given a complete row or had its exception reported, the reports come in
\* test-set order, a case without metadata is among the reported ones, and
\* the run leaves the loop only when every case has been gone through.
C22_FailureIsolation ==
    /\ epc = "generate" => case_i \in 1..(Len(test_cases) + 1)
    /\ epc \notin {"idle", "generate"} => CasesDone = 1..Len(test_cases)
    /\ \A r \in 1..Len(ErrorReports) : ErrorReports[r][2] \in CasesDone
    /\ \A r, s \in 1..Len(ErrorReports) :
          r < s => ErrorReports[r][2] < ErrorReports[s][2]
    /\ Len(results.reference) + Len(ErrorReports) = Cardinality(CasesDone)
    /\ \A j \in CasesDone :
          "metadata" \notin test_cases[j].has =>
              \E r \in 1..Len(ErrorReports) : ErrorReports[r][2] = j

\* The first of three cases raised and was reported, the two later ones
\* were gone through and gave their rows.
C22_Witness ==
    /\ epc = "dataset"
    /\ Len(test_cases) = 3
    /\ ErrorReports = << << "error", 1 >> >>
    /\ Len(results.reference) = 2

(* ------------------------------ C23 ------------------------------------ *)

\* crawl_with_retry has returned for the URL last taken up.
CallOver == cpc # "try" /\ tries # << >>

\* The exception is a rate-limit error for this crawler: its text holds
\* "429" (and, for the modified crawler, not "Payment Required", which is
\* looked for first).
RateLimit(e) ==
    /\ "429" \in e.marks
    /\ ~(crawler = "modified" /\ "Payment Required" \in e.marks)

\* C23 (bounded retries and termination of crawl_with_retry): a call makes
\* at most max_retries calls of app.crawl_url and has an attempt left while
\* it runs; it returns at the first call that succeeds, with the result of
\* that call; it makes exactly max_retries calls when every one fails with a
\* rate-limit error; and it returns a result, None or (modified crawler)
\* "STOP_ALL".
C23_BoundedRetries ==
    /\ Len(tries) <= max_retries
    /\ cpc = "try" => attempt < max_retries /\ Len(tries) = attempt
    /\ CallOver =>
          LET n == Len(tries)
              out == outcomes[Len(outcomes)]
          IN  /\ \A k \in 1..(n - 1) : ~tries[k].ok
              /\ tries[n].ok <=> out = "crawled"
              /\ out = "crawled" =>
                    /\ crawl_results # << >>
                    /\ crawl_results[Len(crawl_results)]
                          = CrawlResult(resources[Len(outcomes)])
              /\ (\A k \in 1..n : ~tries[k].ok /\ RateLimit(tries[k].error))
                    => n = max_retries /\ out = "rate limited"
              /\ out \in {"crawled", "rate limited", "error", "stopped"}
              /\ out = "stopped" => crawler = "modified"

\* Three calls of app.crawl_url have failed with a 429 error and the call
\* has returned None.
C23_Witness ==
    /\ CallOver
    /\ Len(tries) = max_retries
    /\ \A k \in 1..Len(tries) : ~tries[k].ok /\ RateLimit(tries[k].error)
    /\ outcomes[Len(outcomes)] = "rate limited"

(* ------------------------------ C24 ------------------------------------ *)

\* The seconds an error message asks for: its "retry after <N>s", or 60.
AskedWait(e) == IF e.retry_after # 0 THEN e.retry_after ELSE 60

\* C24 (retry wait duration): crawl_with_retry has slept once after every
\* failed call but the last one of a call that is over, each time after a
\* 429 error and for exactly the seconds its message asks for (60 when it
\* names none).
C24_ExactWait ==
    /\ Len(waited) = IF CallOver THEN Len(tries) - 1 ELSE Len(tries)
    /\ \A k \in 1..Len(waited) :
          /\ ~tries[k].ok
          /\ "429" \in tries[k].error.marks
          /\ waited[k] = AskedWait(tries[k].error)

(* ------------------------------ C25 ------------------------------------ *)

\* C25 (only rate-limit errors are retried): a call of app.crawl_url that
\* fails with an error without "429" in its text is the last call for its
\* URL, whatever attempt it is: crawl_with_retry does not sleep after it and
\* has returned None (or "STOP_ALL"), and the loop keeps no result for the
\* URL.
C25_OnlyRateLimitRetried ==
    \A k \in 1..Len(tries) :
        (~tries[k].ok /\ "429" \notin tries[k].error.marks) =>
            /\ k = Len(tries)
            /\ cpc # "try"
            /\ Len(waited) = k - 1
            /\ outcomes[Len(outcomes)] \in {"error", "stopped"}
            /\ Len(crawl_results) = Cardinality(Crawled)

\* The second attempt for a URL, made after a 429 error, failed with an
\* error of another kind and the call returned None.
C25_Witness ==
    /\ CallOver
    /\ Len(tries) = 2
    /\ "429" \in tries[1].error.marks
    /\ ~tries[2].ok /\ tries[2].error.marks = {}
    /\ outcomes[Len(outcomes)] = "error"

(* ------------------------------ C26 ------------------------------------ *)

\* C26 (stop on insufficient credits, modified crawler): a call of
\* app.crawl_url that fails with "Payment Required" is the last call of the
\* run: crawl_with_retry returns "STOP_ALL" without sleeping or retrying,
\* the loop is over with no later URL taken up, the results of the earlier
\* URLs are all there, and at the end they are in the corpus file, which is
\* left unwritten when there is no result.
C26_StopOnCredits ==
    crawler = "modified" =>
        \A k \in 1..Len(tries) :
            (~tries[k].ok /\ "Payment Required" \in tries[k].error.marks) =>
                /\ k = Len(tries)
                /\ Len(waited) = k - 1
                /\ outcomes[Len(outcomes)] = "stopped"
                /\ LoopOver
                /\ link = Len(outcomes)
                /\ Len(crawl_results) = Cardinality(Crawled)
                /\ \A i \in Crawled :
                      crawl_results[Cardinality({ j \in Crawled : j <= i })]
                          = CrawlResult(resources[i])
                /\ cpc = "end" =>
                      IF crawl_results # << >>
                      THEN json_file = crawl_results
                      ELSE json_file = NoFile

\* The first URL was crawled, the second one failed with "Payment
\* Required": the run has ended and the file holds the one result.
C26_Witness ==
    /\ crawler = "modified"
    /\ cpc = "end"
    /\ Len(resources) = 2
    /\ outcomes = << "crawled", "stopped" >>
    /\ "Payment Required" \in tries[Len(tries)].error.marks
    /\ json_file = << CrawlResult(resources[1]) >>

(***************************************************************************)
(* filter_corpus: the corpus without the documents of excluded domains     *)
(***************************************************************************)

\* Most items of a batch explored.
MaxBatchItems == 2

\* A URL: the labels of its host and its port ("" when it names none), so
\* "https://www.toronto.ca:443/d" is host www, toronto, ca and port 443;
\* the empty string has no label.
Url(host, port) == [host |-> host, port |-> port]
EmptyUrl == Url(<< >>, "")

\* str.lower(), for one label.
Lower(label) ==
    CASE label = "TTC" -> "ttc"
      [] label = "CA" -> "ca"
      [] OTHER -> label

\* `urlparse(source_url).netloc.lower().split('.')`: the network location
\* is the host followed by ":" and the port when the URL names one, so the
\* port is part of the last piece.
netloc_split(u) ==
    [i \in 1..Len(u.host) |->
        IF i = Len(u.host) /\ u.port # ""
        THEN << Lower(u.host[i]), ":", u.port >>
        ELSE << Lower(u.host[i]) >>]

\* `'.'.join(domain.split('.')[-2:])`
base_domain_of_host(u) ==
    LET parts == [i \in 1..Len(u.host) |-> << Lower(u.host[i]) >>]
        n == Len(parts)
    IN  Join(".", SubSeq(parts, IF n > 2 THEN n - 1 ELSE 1, n))
base_domain(u) ==
    LET parts == netloc_split(u)
        n == Len(parts)
    IN  Join(".", SubSeq(parts, IF n > 2 THEN n - 1 ELSE 1, n))

excluded_domains ==
    { << "retailcouncil", ".", "org" >>,
      << "toronto", ".", "ca" >>,
      << "ttc", ".", "ca" >> }

\* `item['metadata'].get('sourceURL', item['metadata'].get('url', ''))`
source_url(md) ==
    IF "sourceURL" \in md.has THEN md.sourceURL
    ELSE IF "url" \in md.has THEN md.url
    ELSE EmptyUrl

\* The items of the corpus: the keys an item has, and its metadata.
FilterItem(name, has, mdhas, u) ==
    [name |-> name, has |-> has,
     metadata |-> [has |-> mdhas, sourceURL |-> u, url |-> u]]
FilterItems ==
    { FilterItem("tps", {"markdown", "metadata"}, {"sourceURL", "url"},
                 Url(<< "www", "tps", "ca" >>, "")),
      FilterItem("toronto", {"markdown", "metadata"}, {"sourceURL"},
                 Url(<< "www", "toronto", "ca" >>, "")),
      FilterItem("ttc", {"markdown", "metadata"}, {"url"},
                 Url(<< "TTC", "CA" >>, "")),
      FilterItem("toronto with port", {"markdown", "metadata"}, {"sourceURL"},
                 Url(<< "www", "toronto", "ca" >>, "443")),
      FilterItem("no url", {"markdown", "metadata"}, {}, EmptyUrl),
      FilterItem("no metadata", {"markdown"}, {}, EmptyUrl) }

\* A batch with a `data` list, and a batch without.
FilterBatches ==
    { [has |-> {"success", "data"}, data |-> d] :
        d \in BoundedSeq(FilterItems, MaxBatchItems) }
    \cup { [has |-> {"success", "error"}, data |-> << >>] }

\* The corpus files explored: one or two batches, or no file.
FilterCorpora ==
    { Written(<< b >>) : b \in FilterBatches }
    \cup { Written(<< b, c >>) : b, c \in FilterBatches }
    \cup { NotWritten }

\* The inner loop: is the item appended to filtered_items, is it counted
\* as excluded.
item_excluded(item) ==
    /\ "metadata" \in item.has
    /\ base_domain(source_url(item.metadata)) \in excluded_domains
item_kept(item) ==
    /\ "metadata" \in item.has
    /\ ~item_excluded(item)
filtered_items(batch) ==
    IF "data" \in batch.has THEN SelectSeq(batch.data, item_kept) ELSE << >>

\* `filtered_batch = batch.copy(); filtered_batch['data'] = filtered_items`
filtered_batch(batch) ==
    [batch EXCEPT !.has = @ \cup {"data"}, !.data = filtered_items(batch)]

(* ------------------------------ FilterSpec ----------------------------- *)

FilterInit ==
    /\ NotFilterInit
    /\ input_file \in FilterCorpora
    /\ corpus_data = << >>
    /\ fpc = "read"
    /\ batch_i = 0
    /\ filtered_results = << >>
    /\ excluded_count = 0
    /\ kept_domains = {}
    /\ output_file = NotWritten
    /\ filter_log = << >>

\* The file is read (and its domains are listed in the log).
ReadCorpus ==
    /\ fpc = "read"
    /\ input_file.exists
    /\ corpus_data' = input_file.rows
    /\ batch_i' = 1
    /\ fpc' = "filter"
    /\ UNCHANGED << input_file, filtered_results, excluded_count,
                    kept_domains, output_file, filter_log >>
    /\ UNCHANGED notFilter

\* open raises: the error is logged and the function returns.
ReadFails ==
    /\ fpc = "read"
    /\ ~input_file.exists
    /\ filter_log' = Append(filter_log, "Error filtering corpus")
    /\ fpc' = "end"
    /\ UNCHANGED << input_file, corpus_data, batch_i, filtered_results,
                    excluded_count, kept_domains, output_file >>
    /\ UNCHANGED notFilter

\* One pass of `for batch in data`.
FilterBatch ==
    /\ fpc = "filter"
    /\ batch_i <= Len(corpus_data)
    /\ LET batch == corpus_data[batch_i]
           items == IF "data" \in batch.has THEN batch.data ELSE << >>
       IN  /\ filtered_results' =
                 IF filtered_items(batch) # << >>
                 THEN Append(filtered_results, filtered_batch(batch))
                 ELSE filtered_results
           /\ excluded_count' =
                 excluded_count + Len(SelectSeq(items, item_excluded))
           /\ kept_domains' =
                 kept_domains \cup
                     { base_domain(source_url(filtered_items(batch)[i].metadata)) :
                         i \in 1..Len(filtered_items(batch)) }
    /\ batch_i' = batch_i + 1
    /\ UNCHANGED << input_file, corpus_data, fpc, output_file, filter_log >>
    /\ UNCHANGED notFilter

\* The filtered batches are written.
SaveFiltered ==
    /\ fpc = "filter"
    /\ batch_i > Len(corpus_data)
    /\ output_file' = Written(filtered_results)
    /\ fpc' = "end"
    /\ UNCHANGED << input_file, corpus_data, batch_i, filtered_results,
                    excluded_count, kept_domains, filter_log >>
    /\ UNCHANGED notFilter

\* Opening the output file raises: the error is logged.
SaveFails ==
    /\ fpc = "filter"
    /\ batch_i > Len(corpus_data)
    /\ filter_log' = Append(filter_log, "Error filtering corpus")
    /\ fpc' = "end"
    /\ UNCHANGED << input_file, corpus_data, batch_i, filtered_results,
                    excluded_count, kept_domains, output_file >>
    /\ UNCHANGED notFilter

FilterNext ==
    \/ ReadCorpus
    \/ ReadFails
    \/ FilterBatch
    \/ SaveFiltered
    \/ SaveFails

FilterSpec == FilterInit /\ [][FilterNext]_vars

(* ------------------------------ C27 ------------------------------------ *)

\* The base domain of the item's source URL: the last two labels of the
\* host.
HostBase(item) == base_domain_of_host(source_url(item.metadata))

\* What the claim keeps of a batch.
ToKeep(batch) ==
    IF "data" \in batch.has
    THEN SelectSeq(batch.data,
                   LAMBDA item : /\ "metadata" \in item.has
                                 /\ HostBase(item) \notin excluded_domains)
    ELSE << >>

\* C27 (filter_corpus output): the filtered corpus holds no item whose host
\* has an excluded base domain; its batches are the input batches that are
\* left with an item, in order, each with its items that have metadata and
\* a base domain that is not excluded, in order; the input file and the
\* loaded batches stay as they were; and a call that wrote no file has
\* logged its error.
C27_FilterOutput ==
    /\ fpc # "read" /\ input_file.exists => corpus_data = input_file.rows
    /\ fpc = "end" /\ ~output_file.exists => filter_log # << >>
    /\ output_file.exists =>
          LET kept == [i \in 1..Len(corpus_data) |-> ToKeep(corpus_data[i])]
              left == SelectSeq([i \in 1..Len(corpus_data) |-> i],
                                LAMBDA i : kept[i] # << >>)
          IN  /\ \A b \in 1..Len(output_file.rows) :
                    \A i \in 1..Len(output_file.rows[b].data) :
                        HostBase(output_file.rows[b].data[i])
                            \notin excluded_domains
              /\ Len(output_file.rows) = Len(left)
              /\ \A b \in 1..Len(left) :
                    output_file.rows[b].data = kept[left[b]]

(***************************************************************************)
(* load_test_set: which test set an evaluation script reads                *)
(***************************************************************************)

\* Latest modification time explored.
MaxTime == 2

\* The file names explored, as their pieces.
V2NameA == << "test_set_", "v2_", "20241101", ".json" >>
V2NameB == << "test_set_", "v2_", "20241115", ".json" >>
V1Name == << "test_set_", "20241110", ".json" >>
LatestName == << "latest_", "test_set", ".json" >>
OtherName == << "notes", ".txt" >>
FileNames == {V2NameA, V2NameB, V1Name, LatestName, OtherName}

\* The copies of load_test_set: evals_LLMOutput_V3.py and
\* evals_precision_recall_V3.py ("V3"), main_evals.py and
\* evaluation_code/main_evals.py ("main_evals").
Loaders == {"V3", "main_evals"}

\* None: `not filename` holds for it as for the empty string.
NoFilename == << >>

\* `filename: str = None` and `filename: str = "latest_test_set.json"`
default_filename(l) == IF l = "V3" THEN NoFilename ELSE LatestName

\* `test_sets_dir.glob("test_set_v2_*.json")` and `glob("test_set_*.json")`
glob_matches(l, name) ==
    /\ name[1] = "test_set_"
    /\ name[Len(name)] = ".json"
    /\ l = "V3" => Len(name) > 2 /\ name[2] = "v2_"

\* A file of test_sets/: its name, its modification time and its JSON.
TestSetFile(name, mtime) ==
    [name |-> name, mtime |-> mtime, questions |-> << << "question of" >> \o name >>]

\* The states of test_sets/ explored: every file is absent or there with
\* some modification time.
Directories ==
    { { TestSetFile(n, m[n]) : n \in { x \in FileNames : m[x] > 0 } } :
        m \in [FileNames -> 0..MaxTime] }

\* The calls explored: without an argument, with None, with a name.
Arguments ==
    { [given |-> FALSE, arg |-> NoFilename] }
    \cup { [given |-> TRUE, arg |-> a] : a \in {NoFilename, V2NameA, LatestName} }

\* `max(test_sets, key=lambda x: x.stat().st_mtime)`: a file no other is
\* newer than (the first one of them in the order glob lists the files).
latest_of_any(files) == files
latest_of(files) == { f \in files : \A g \in files : g.mtime <= f.mtime }

\* The files the glob lists.
test_sets(l, dir) == { f \in dir : glob_matches(l, f.name) }

FileNotFound(message) == [raised |-> message, questions |-> << >>]
Questions(qs) == [raised |-> "none", questions |-> qs]

(* ------------------------------ SelectSpec ----------------------------- *)

SelectInit ==
    /\ NotSelectInit
    /\ test_sets_dir \in Directories
    /\ loader \in Loaders
    /\ \E a \in Arguments :
          filename = [given |-> a.given, arg |-> a.arg,
                      value |-> IF a.given THEN a.arg
                                ELSE default_filename(loader)]
    /\ spc = "call"
    /\ loaded = NothingLoaded

\* `if not filename`: the newest matching file is chosen.
SelectLatest(f) ==
    /\ spc = "call"
    /\ filename.value = NoFilename
    /\ f \in latest_of(test_sets(loader, test_sets_dir))
    /\ filename' = [filename EXCEPT !.value = f.name]
    /\ spc' = "open"
    /\ UNCHANGED << test_sets_dir, loader, loaded >>
    /\ UNCHANGED notSelect

\* `if not test_sets: raise FileNotFoundError("No test sets found")`
NoTestSets ==
    /\ spc = "call"
    /\ filename.value = NoFilename
    /\ test_sets(loader, test_sets_dir) = {}
    /\ loaded' = FileNotFound("No test sets found")
    /\ spc' = "end"
    /\ UNCHANGED << test_sets_dir, loader, filename >>
    /\ UNCHANGED notSelect

\* The filename is there: nothing is looked up.
NameGiven ==
    /\ spc = "call"
    /\ filename.value # NoFilename
    /\ spc' = "open"
    /\ UNCHANGED << test_sets_dir, loader, filename, loaded >>
    /\ UNCHANGED notSelect

\* The file is opened and its "questions" are returned.
ReadQuestions(f) ==
    /\ spc = "open"
    /\ f \in test_sets_dir
    /\ f.name = filename.value
    /\ loaded' = Questions(f.questions)
    /\ spc' = "end"
    /\ UNCHANGED << test_sets_dir, loader, filename >>
    /\ UNCHANGED notSelect

\* open raises: there is no file of that name.
OpenFails ==
    /\ spc = "open"
    /\ \A f \in test_sets_dir : f.name # filename.value
    /\ loaded' = FileNotFound("No such file or directory")
    /\ spc' = "end"
    /\ UNCHANGED << test_sets_dir, loader, filename >>
    /\ UNCHANGED notSelect

SelectNext ==
    \/ \E f \in test_sets_dir : SelectLatest(f)
    \/ NoTestSets
    \/ NameGiven
    \/ \E f \in test_sets_dir : ReadQuestions(f)
    \/ OpenFails

SelectSpec == SelectInit /\ [][SelectNext]_vars

(* ------------------------------ C28 ------------------------------------ *)

\* The files with the test-set naming pattern of the copy called.
Matching == { f \in test_sets_dir : glob_matches(loader, f.name) }

\* The call has ended as the claim says a call that looks for the newest
\* test set ends.
NewestLoaded ==
    IF Matching = {}
    THEN loaded = FileNotFound("No test sets found")
    ELSE /\ loaded.raised = "none"
         /\ \E f \in Matching :
               /\ \A g \in Matching : g.mtime <= f.mtime
               /\ loaded.questions = f.questions

\* C28 as stated (test-set selection): load_test_set called without a
\* filename returns the "questions" of a most recently modified file with the
\* test-set naming pattern, and raises FileNotFoundError("No test sets
\* found") when there is no such file.
C28_MostRecent ==
    (spc = "end" /\ ~filename.given) => NewestLoaded

\* C28 as amended: a call whose filename is None or empty (a call without a
\* filename of the V3 copies, a call with None of any copy) ends like that;
\* a call without a filename of the main_evals copies reads
\* test_sets/latest_test_set.json, whatever other test sets there are, and
\* raises the FileNotFoundError of open when that file is missing.
C28_Selection ==
    spc = "end" =>
        /\ (IF filename.given THEN filename.arg = NoFilename
            ELSE loader = "V3") => NewestLoaded
        /\ (~filename.given /\ loader = "main_evals") =>
              IF \E f \in test_sets_dir : f.name = LatestName
              THEN \E f \in test_sets_dir :
                      /\ f.name = LatestName
                      /\ loaded = Questions(f.questions)
              ELSE loaded = FileNotFound("No such file or directory")

\* A V3 copy called without a filename has returned the questions of the
\* newer of two test sets.
C28_Witness ==
    /\ spc = "end"
    /\ loader = "V3" /\ ~filename.given
    /\ TestSetFile(V2NameA, 1) \in test_sets_dir
    /\ TestSetFile(V2NameB, 2) \in test_sets_dir
    /\ loaded = Questions(TestSetFile(V2NameB, 2).questions)

(***************************************************************************)
(* RAGTracker: the history of experiments                                  *)
(***************************************************************************)

\* Most RAGTracker objects constructed, most rows explored.
MaxTrackers == 2
MaxRows == 3

\* What log_experiment is called with: the configuration's retriever_k
\* (None when the key is missing) and the notes (default "").
Experiments ==
    { [retriever_k |-> "None", notes |-> ""],
      [retriever_k |-> "10", notes |-> "baseline"] }

\* new_row; the timestamp is the number of the call.
new_row(stamp, e) ==
    [timestamp |-> stamp, experiment_name |-> "toronto_safety_rag",
     retriever_k |-> e.retriever_k, notes |-> e.notes]

\* DataFrame.to_csv writes None, NaN and "" as an empty field;
\* pd.read_csv reads an empty field as NaN.
to_field(v) == IF v \in {"None", "NaN", ""} THEN "" ELSE v
from_field(v) == IF v = "" THEN "NaN" ELSE v
to_csv(rows) ==
    [i \in 1..Len(rows) |->
        [rows[i] EXCEPT !.retriever_k = to_field(@), !.notes = to_field(@)]]
read_csv(rows) ==
    [i \in 1..Len(rows) |->
        [rows[i] EXCEPT !.retriever_k = from_field(@), !.notes = from_field(@)]]

\* `pd.concat([self.history, pd.DataFrame([new_row])], ignore_index=True)`
concat_row(history, row) == Append(history, row)

\* The history files a run may find: none, or one with a row of an
\* earlier run.
EarlierRow == new_row(0, [retriever_k |-> "5", notes |-> ""])
HistoryFiles == { NotWritten, Written(to_csv(<< EarlierRow >>)) }

(* ------------------------------- TrackSpec ----------------------------- *)

TrackInit ==
    /\ NotTrackerInit
    /\ history_file \in HistoryFiles
    /\ trackers = << >>
    /\ logged = history_file.rows

\* RAGTracker(...): the history file exists and is read.
ConstructLoads ==
    /\ Len(trackers) < MaxTrackers
    /\ history_file.exists
    /\ trackers' = Append(trackers, [history |-> read_csv(history_file.rows)])
    /\ UNCHANGED << history_file, logged >>
    /\ UNCHANGED notTracker

\* RAGTracker(...): there is no history file; the history starts empty.
ConstructEmpty ==
    /\ Len(trackers) < MaxTrackers
    /\ ~history_file.exists
    /\ trackers' = Append(trackers, [history |-> << >>])
    /\ UNCHANGED << history_file, logged >>
    /\ UNCHANGED notTracker

\* trackers[i].log_experiment(metrics_df, config, notes)
LogExperiment(i, e) ==
    /\ i \in 1..Len(trackers)
    /\ Len(logged) < MaxRows
    /\ LET row == new_row(Len(logged) + 1, e)
           history == concat_row(trackers[i].history, row)
       IN  /\ trackers' = [trackers EXCEPT ![i].history = history]
           /\ history_file' = Written(to_csv(history))
           /\ logged' = logged \o to_csv(<< row >>)
    /\ UNCHANGED notTracker

TrackNext ==
    \/ ConstructLoads
    \/ ConstructEmpty
    \/ \E i \in 1..MaxTrackers, e \in Experiments : LogExperiment(i, e)

TrackSpec == TrackInit /\ [][TrackNext]_vars

(* ------------------------------ C29 ------------------------------------ *)

\* C29 (RAGTracker history is append-only): the history file holds every
\* row that was ever logged, in the order of the calls, so no row of an
\* earlier tracker is lost; a tracker's history, written as CSV, is made of
\* logged rows in that order.
C29_AppendOnly ==
    /\ history_file.rows = logged
    /\ \A i \in 1..Len(trackers) :
          LET h == to_csv(trackers[i].history)
          IN  /\ \A k \in 1..Len(h) : \E j \in 1..Len(logged) : h[k] = logged[j]
              /\ \A k \in 1..(Len(h) - 1) : h[k].timestamp < h[k + 1].timestamp
====
